---- MODULE Spec2Model ----
(***************************************************************************)
(* Storage kernel of memogarden-system: the Entity registry (Core), the    *)
(* Fact store (Soil), the artifact commit engine, the conversation fold    *)
(* and the cross-database transaction coordinator, for one caller.         *)
(*                                                                         *)
(* core / soil are the committed contents of the two database files;       *)
(* coreW / soilW are what the caller's open connection sees (committed     *)
(* contents plus its own uncommitted writes).                              *)
(***************************************************************************)
EXTENDS Integers, Sequences, FiniteSets, TLC

\* ---------------------------------------------------------------- bounds
MaxEntities == 2
MaxFacts == 2
MaxTime == 1
MaxVersion == 3
MaxLines == 2
MaxArtifacts == 1
MaxRelations == 3
MaxUserRelations == 2
MaxDay == 2
MaxFrames == 2
MaxVisited == 4
MaxScopes == 3
MaxTimeline == 2
MaxCallers == 3
MaxItems == 2
MaxOps == 3

Uuids == 1..MaxEntities
FactIds == 1..MaxFacts

\* ------------------------------------------------------------ null values
NoUuid == 0
NoTime == -1
NoHash == <<>>
WrongHash == <<"00000000">>

FactTypes == {"Note", "EntityDelta"}

\* ----------------------------------------------------------------- hashes
\* SHA-256 over the canonically ordered metadata; modelled as the injective
\* tuple of its inputs (collisions of SHA-256 are not modelled).
compute_entity_hash(entity_type, created_at, updated_at, group_id, derived_from, superseded_by, superseded_at, previous_hash) ==
    <<"eh", entity_type, created_at, updated_at, group_id, derived_from,
      superseded_by, superseded_at, previous_hash>>

compute_next_hash(entity_type, created_at, updated_at, current_hash, group_id, derived_from, superseded_by, superseded_at) ==
    compute_entity_hash(entity_type, created_at, updated_at, group_id,
                        derived_from, superseded_by, superseded_at, current_hash)

\* 8-hex prefix of SHA-256 of the content; injective on the modelled contents.
compute_content_hash(content) == <<"ch", content>>

\* -------------------------------------------------------------- payloads
\* Entity.data is a JSON object; absent keys are modelled by their
\* data.get(...) defaults.
EmptyData == [payload |-> 0, content |-> <<"">>, deltas |-> <<>>,
              collapsed |-> FALSE, summary |-> 0, items |-> <<>>]

Lines == {"a", "[^x]"}
InitContents == {<<"a">>}

InitData(t) ==
    IF t = "Artifact"
    THEN {[EmptyData EXCEPT !.content = c] : c \in InitContents}
    ELSE {EmptyData}


\* ------------------------------------------------- artifact delta ops
\* DeltaOp: one parsed line of an ops string.  A line no pattern matches is
\* kept as op_type "invalid" until parse_delta_ops rejects the string.
Add(l) == [op_type |-> "add", line |-> l, target_line |-> 0]
Remove(l) == [op_type |-> "remove", line |-> l, target_line |-> 0]
Replace(l) == [op_type |-> "replace", line |-> l, target_line |-> 0]
Move(l, t) == [op_type |-> "move", line |-> l, target_line |-> t]
Garbage == [op_type |-> "invalid", line |-> 0, target_line |-> 0]

\* The ops strings the caller passes (empty string, single ops, the spec's
\* "+2:^x\n-2" shape, an out-of-range line, an unparsable line).
OpsInputs == { <<>>, <<Add(1)>>, <<Remove(1)>>, <<Replace(1)>>,
               <<Add(2), Remove(2)>>, <<Move(2, 1)>>, <<Remove(3)>>, <<Garbage>> }

\* The parsed ops apply_delta_ops is called with: up to MaxOps ops on lines up
\* to one past the longest content.
OpLines == 1..(MaxLines + 1)
DeltaOps == {Add(l) : l \in OpLines} \cup {Remove(l) : l \in OpLines}
            \cup {Replace(l) : l \in OpLines}
            \cup {Move(l, t) : l \in OpLines, t \in OpLines}
OpsLists == UNION {[1..n -> DeltaOps] : n \in 0..MaxOps}

\* The contents apply_delta_ops is called with: content.split('\n') has at
\* least one line.
Contents == UNION {[1..n -> Lines] : n \in 1..MaxLines}

\* parse_delta_ops raises ValueError on the first line that matches no pattern.
ParseOk(ops) == \A i \in 1..Len(ops) : ops[i].op_type # "invalid"

SelectOps(ops, kinds) == SelectSeq(ops, LAMBDA o : o.op_type \in kinds)

\* list.sort(key=line, reverse=True): stable, descending.
RECURSIVE SortDesc(_)
SortDesc(s) ==
    IF s = <<>> THEN <<>>
    ELSE LET x == s[Len(s)]
             r == SortDesc(SubSeq(s, 1, Len(s) - 1))
             k == Cardinality({i \in 1..Len(r) : r[i].line >= x.line})
         IN SubSeq(r, 1, k) \o <<x>> \o SubSeq(r, k + 1, Len(r))

\* list.sort(key=line): stable, ascending.
RECURSIVE SortAsc(_)
SortAsc(s) ==
    IF s = <<>> THEN <<>>
    ELSE LET x == s[Len(s)]
             r == SortAsc(SubSeq(s, 1, Len(s) - 1))
             k == Cardinality({i \in 1..Len(r) : r[i].line <= x.line})
         IN SubSeq(r, 1, k) \o <<x>> \o SubSeq(r, k + 1, Len(r))

Pop(lines, i) == SubSeq(lines, 1, i - 1) \o SubSeq(lines, i + 1, Len(lines))
InsertAt(lines, i, x) ==
    IF i > Len(lines) THEN lines \o <<x>>
    ELSE SubSeq(lines, 1, i - 1) \o <<x>> \o SubSeq(lines, i, Len(lines))

\* One remove/move applied to st = [ok, lines]; ok = FALSE once ValueError is raised.
ApplyRemove(st, op) ==
    IF ~st.ok THEN st
    ELSE IF op.line < 1 \/ op.line > Len(st.lines) THEN [st EXCEPT !.ok = FALSE]
    ELSE IF op.op_type = "remove" THEN [st EXCEPT !.lines = Pop(st.lines, op.line)]
    ELSE IF op.target_line < 1 \/ op.target_line > Len(st.lines)
         THEN [st EXCEPT !.ok = FALSE]
         ELSE [st EXCEPT !.lines = InsertAt(Pop(st.lines, op.line), op.target_line,
                                            st.lines[op.line])]

ApplyAddReplace(st, op) ==
    IF ~st.ok THEN st
    ELSE IF op.line < 1 \/ op.line > Len(st.lines) + 1 THEN [st EXCEPT !.ok = FALSE]
    ELSE IF op.op_type = "add" THEN [st EXCEPT !.lines = InsertAt(st.lines, op.line, "[^x]")]
    ELSE IF op.line > Len(st.lines) THEN [st EXCEPT !.ok = FALSE]
         ELSE [st EXCEPT !.lines[op.line] = "[^x]"]

\* The two for loops of apply_delta_ops, over the sorted ops.
RECURSIVE ApplyRemoves(_, _)
ApplyRemoves(st, ops) ==
    IF ops = <<>> THEN st ELSE ApplyRemoves(ApplyRemove(st, ops[1]), Tail(ops))

RECURSIVE ApplyAddReplaces(_, _)
ApplyAddReplaces(st, ops) ==
    IF ops = <<>> THEN st ELSE ApplyAddReplaces(ApplyAddReplace(st, ops[1]), Tail(ops))

\* '\n'.join(lines) read back by content.split('\n'): no line gives one empty line.
JoinLines(lines) == IF lines = <<>> THEN <<"">> ELSE lines

\* apply_delta_ops as it would be if it took the ops in the order given.
apply_delta_ops_InputOrder(content, ops) ==
    LET afterRemoves == ApplyRemoves([ok |-> TRUE, lines |-> content],
                                     SelectOps(ops, {"remove", "move"}))
        afterAdds == ApplyAddReplaces(afterRemoves, SelectOps(ops, {"add", "replace"}))
    IN [ok |-> afterAdds.ok, content |-> JoinLines(afterAdds.lines)]

apply_delta_ops(content, ops) ==
    LET afterRemoves == ApplyRemoves([ok |-> TRUE, lines |-> content],
                                     SortDesc(SelectOps(ops, {"remove", "move"})))
        afterAdds == ApplyAddReplaces(afterRemoves,
                                      SortAsc(SelectOps(ops, {"add", "replace"})))
    IN [ok |-> afterAdds.ok, content |-> JoinLines(afterAdds.lines)]

VARIABLES
    now,        \* isodatetime.now(), a non-decreasing clock
    core,       \* committed entity table of core.db: uuid -> row
    coreW,      \* entity table as seen by the caller's Core connection
    coreTxn,    \* transaction state of the Core connection
    soil,       \* committed item table of soil.db: set of fact rows
    soilW,      \* item table as seen by the caller's Soil connection
    soilTxn,    \* transaction state of the Soil connection
    pc,         \* "idle", "core", "soil", "xdb" (in the block), "xdb_soil_done"
    lastExit,   \* how the last coordinated block ended
    soil0,      \* Soil contents when the coordinated block was entered
    core0,      \* Core contents when the coordinated block was entered
    soilX,      \* Soil as seen by the block when its body ended
    coreX,      \* Core as seen by the block when its body ended
    ret,        \* outcome of the commit_delta call just made (NoRet after any other step)
    today,           \* current_day(): days since epoch, non-decreasing
    system_relation, \* Soil table system_relation as the open connection sees it
    user_relation,   \* Core table user_relation: uuid -> row
    context_frame,   \* Core table context_frame as the open connection sees it: uuid -> row
    frames,          \* the ContextFrame objects the caller holds: uuid -> object
    result,          \* what the relation or context call just made returned or raised
    suspended,       \* history: the scopes left and not entered since
    callers,         \* concurrent get_context_frame callers: caller -> its call's progress
    xpc,             \* concurrent coordinated callers: caller -> position in its block
    xlock            \* write lock of each database file: file -> holder (NoCaller if free)

vars == <<now, core, coreW, coreTxn, soil, soilW, soilTxn, pc, lastExit,
          soil0, core0, soilX, coreX, ret,
          today, system_relation, user_relation, context_frame, frames, result,
          suspended, callers, xpc, xlock>>

\* The variables of the relation and context operations.
extVars == <<today, system_relation, user_relation, context_frame, frames, result,
             suspended, callers, xpc, xlock>>

\* The variables of the specifications with several callers.
auxVars == <<callers, xpc, xlock>>

\* The variables of the entity, fact and transaction operations.
baseVars == <<now, core, coreW, coreTxn, soil, soilW, soilTxn, pc, lastExit,
              soil0, core0, soilX, coreX, ret>>

coreVars == <<core, coreW, coreTxn>>
soilVars == <<soil, soilW, soilTxn>>
snapVars == <<lastExit, soil0, core0, soilX, coreX>>

NoRet == "none"

\* A call's outcome: the exception raised, "ok" with the value returned, or
\* "None" when the call returned None.
Result(outcome, value) == [outcome |-> outcome, value |-> value]
NoResult == Result("none", 0)

Callers == 1..MaxCallers
NoCaller == 0

\* A caller that is not inside a get_context_frame call.
IdleCall == [pc |-> "idle", owner |-> NoUuid, owner_type |-> "", uuid |-> NoUuid]

Init ==
    /\ now = 0
    /\ core = <<>>
    /\ coreW = <<>>
    /\ coreTxn = "none"
    /\ soil = {}
    /\ soilW = {}
    /\ soilTxn = "none"
    /\ pc = "idle"
    /\ lastExit = "none"
    /\ soil0 = {}
    /\ core0 = <<>>
    /\ soilX = {}
    /\ coreX = <<>>
    /\ ret = NoRet
    /\ today = 0
    /\ system_relation = {}
    /\ user_relation = <<>>
    /\ context_frame = <<>>
    /\ frames = <<>>
    /\ result = NoResult
    /\ suspended = {}
    /\ callers = [p \in Callers |-> IdleCall]
    /\ xpc = [p \in Callers |-> "idle"]
    /\ xlock = [soil |-> NoCaller, core |-> NoCaller]

\* The clock advances between operations.
Tick ==
    /\ now < MaxTime
    /\ now' = now + 1
    /\ ret' = NoRet
    /\ UNCHANGED <<coreVars, soilVars, pc, snapVars, extVars>>

\* ------------------------------------------------- SQLite connections
\* A connection is [file, view, txn]: the committed file, what the connection
\* reads, and whether it has a transaction open.
Db(file, view, txn) == [file |-> file, view |-> view, txn |-> txn]

\* Connection.commit(): makes an open transaction durable, else does nothing.
DbCommit(d) ==
    IF d.txn = "active" THEN Db(d.view, d.view, "committed") ELSE d

\* Connection.rollback(): discards an open transaction, else does nothing.
DbRollback(d) ==
    IF d.txn = "active" THEN Db(d.file, d.file, "rolledback") ELSE d

\* Connection.close() (or the process dying) with a transaction still open.
DbClose(d) == DbRollback(d)

SetCore(d) == core' = d.file /\ coreW' = d.view /\ coreTxn' = d.txn
SetSoil(d) == soil' = d.file /\ soilW' = d.view /\ soilTxn' = d.txn

ClearSnap ==
    /\ lastExit' = "none"
    /\ soil0' = {}
    /\ core0' = <<>>
    /\ soilX' = {}
    /\ coreX' = <<>>

\* ------------------------------------------------------ Core scope (with)
\* Core._get_conn(): usable only between __enter__ and __exit__.
CoreInContext == pc \in {"core", "xdb"}

\* get_core().__enter__
CoreEnter ==
    /\ pc = "idle"
    /\ pc' = "core"
    /\ coreTxn' = "none"
    /\ ClearSnap
    /\ ret' = NoRet
    /\ UNCHANGED <<now, extVars, core, coreW, soilVars>>

\* Core.__exit__(exc): commit when exc is None, else rollback; always close.
Core__exit__(d, exc) == DbClose(IF exc THEN DbRollback(d) ELSE DbCommit(d))

CoreExit(exc) ==
    /\ pc = "core"
    /\ SetCore(Core__exit__(Db(core, coreW, coreTxn), exc))
    /\ pc' = "idle"
    /\ ret' = NoRet
    /\ UNCHANGED <<now, extVars, soilVars, snapVars>>

\* ------------------------------------------------------ Soil scope (with)
SoilInContext == pc \in {"soil", "xdb"}

SoilEnter ==
    /\ pc = "idle"
    /\ pc' = "soil"
    /\ soilTxn' = "none"
    /\ ClearSnap
    /\ ret' = NoRet
    /\ UNCHANGED <<now, extVars, coreVars, soil, soilW>>

Soil__exit__(d, exc) == DbClose(IF exc THEN DbRollback(d) ELSE DbCommit(d))

SoilExit(exc) ==
    /\ pc = "soil"
    /\ SetSoil(Soil__exit__(Db(soil, soilW, soilTxn), exc))
    /\ pc' = "idle"
    /\ ret' = NoRet
    /\ UNCHANGED <<now, extVars, coreVars, snapVars>>

\* -------------------------------------------------------------- Soil ops
FactUuids(tbl) == {f.uuid : f \in tbl}

\* generate_soil_uuid(): a UUID no stored fact carries.
FreshFactIds(tbl) == FactIds \ FactUuids(tbl)
FreshFact(tbl) == CHOOSE u \in FreshFactIds(tbl) : \A v \in FreshFactIds(tbl) : u <= v

\* Fact.compute_hash: SHA-256 of the fact's data.
compute_hash(entity_id, ops, based_on_hash, result_hash) ==
    <<"sha256", entity_id, ops, based_on_hash, result_hash>>

\* The item row: entity_id, ops, based_on_hash and result_hash are its data.
Fact(uuid, type, entity_id, ops, based_on_hash, result_hash) ==
    [uuid |-> uuid, type |-> type, realized_at |-> now, canonical_at |-> now,
     integrity_hash |-> compute_hash(entity_id, ops, based_on_hash, result_hash),
     fidelity |-> "full", entity_id |-> entity_id,
     ops |-> ops, based_on_hash |-> based_on_hash, result_hash |-> result_hash,
     metadata |-> <<>>, superseded_by |-> NoUuid, superseded_at |-> NoTime]

\* Soil.create_item (called create_fact by its newer callers): INSERT INTO item.
create_item(type, entity_id) ==
    /\ SoilInContext
    /\ FreshFactIds(soilW \cup soil) # {}
    /\ soilW' = soilW \cup {Fact(FreshFact(soilW \cup soil), type, entity_id,
                                   <<>>, NoHash, NoHash)}
    /\ soilTxn' = "active"
    /\ ret' = NoRet
    /\ UNCHANGED <<now, extVars, coreVars, soil, pc, snapVars>>

\* mark_superseded's UPDATE as it would be if it also reduced the superseded
\* row to a tombstone.
SupersededFact_Tombstone(fact, superseded_by_uuid, superseded_at) ==
    [fact EXCEPT !.superseded_by = superseded_by_uuid,
                 !.superseded_at = superseded_at,
                 !.fidelity = "tombstone"]

\* UPDATE item SET superseded_by = ?, superseded_at = ? WHERE uuid = ?
SupersededFact(fact, superseded_by_uuid, superseded_at) ==
    [fact EXCEPT !.superseded_by = superseded_by_uuid,
                 !.superseded_at = superseded_at]

\* Soil.mark_superseded: returns whether a row was updated.
mark_superseded(original_uuid, superseded_by_uuid, superseded_at) ==
    /\ SoilInContext
    /\ soilW' = {IF f.uuid = original_uuid
                    THEN SupersededFact(f, superseded_by_uuid, superseded_at)
                    ELSE f : f \in soilW}
    /\ soilTxn' = "active"
    /\ ret' = NoRet
    /\ result' = Result(IF original_uuid \in FactUuids(soilW) THEN "True" ELSE "False", 0)
    /\ UNCHANGED <<now, coreVars, soil, pc, snapVars, today, system_relation, user_relation,
                   context_frame, frames, suspended, auxVars>>

\* --------------------------------------------------- EntityOperations
Put(tbl, u, row) == [x \in DOMAIN tbl \cup {u} |-> IF x = u THEN row ELSE tbl[x]]

\* uid.generate_uuid(): a UUID no entity row carries.
FreshUuid == CHOOSE u \in Uuids \ DOMAIN coreW : \A v \in Uuids \ DOMAIN coreW : u <= v

\* A write through the Core connection (sqlite3 opens the transaction implicitly).
CoreWrite(tbl) ==
    /\ coreW' = tbl
    /\ coreTxn' = "active"
    /\ ret' = NoRet
    /\ UNCHANGED <<now, extVars, core, soilVars, pc, snapVars>>

NewRow(entity_type, data) ==
    [type |-> entity_type,
     hash |-> compute_entity_hash(entity_type, now, now, NoUuid, NoUuid,
                                  NoUuid, NoTime, NoHash),
     previous_hash |-> NoHash,
     version |-> 1,
     group_id |-> NoUuid,
     derived_from |-> NoUuid,
     created_at |-> now,
     updated_at |-> now,
     superseded_by |-> NoUuid,
     superseded_at |-> NoTime,
     data |-> data]

create(entity_type, data) ==
    /\ CoreInContext
    /\ Uuids \ DOMAIN coreW # {}
    /\ CoreWrite(Put(coreW, FreshUuid, NewRow(entity_type, data)))

\* update_hash as it would be if its UPDATE left the previous_hash column out.
HashedRow_NoPrev(current) ==
    [current EXCEPT
        !.hash = compute_next_hash(current.type, current.created_at, now, current.hash,
                                   current.group_id, current.derived_from,
                                   current.superseded_by, current.superseded_at),
        !.version = current.version + 1,
        !.updated_at = now]

\* The row update_hash writes for the row it has read.
HashedRow(current) ==
    [current EXCEPT
        !.hash = compute_next_hash(current.type, current.created_at, now, current.hash,
                                   current.group_id, current.derived_from,
                                   current.superseded_by, current.superseded_at),
        !.previous_hash = current.hash,
        !.version = current.version + 1,
        !.updated_at = now]

update_hash(entity_id) ==
    /\ CoreInContext
    /\ entity_id \in DOMAIN coreW
    /\ coreW[entity_id].version < MaxVersion
    /\ CoreWrite([coreW EXCEPT ![entity_id] = HashedRow(coreW[entity_id])])

update_data(entity_id, data) ==
    /\ CoreInContext
    /\ entity_id \in DOMAIN coreW
    /\ coreW[entity_id].version < MaxVersion
    /\ CoreWrite([coreW EXCEPT ![entity_id] =
                    HashedRow([coreW[entity_id] EXCEPT !.data = data, !.updated_at = now])])

\* The row supersede writes: the UPDATE sets superseded_by, superseded_at,
\* updated_at, hash and version, and no other column.
SupersededRow(current, new_id) ==
    [current EXCEPT
        !.superseded_by = new_id,
        !.superseded_at = now,
        !.updated_at = now,
        !.hash = compute_entity_hash(current.type, current.created_at, now,
                                     current.group_id, current.derived_from,
                                     new_id, now, current.hash),
        !.version = current.version + 1]

supersede(old_id, new_id) ==
    /\ CoreInContext
    /\ old_id \in DOMAIN coreW
    /\ coreW[old_id].version < MaxVersion
    /\ CoreWrite([coreW EXCEPT ![old_id] = SupersededRow(coreW[old_id], new_id)])

\* ----------------------------------------------- ConversationOperations
\* fold as it would be if it emptied the log it collapses.
FoldedRow_DropItems(current, summary) ==
    [current EXCEPT !.data = [current.data EXCEPT !.summary = summary, !.collapsed = TRUE,
                                                  !.items = <<>>],
                    !.updated_at = now]

\* The row fold writes: data and updated_at.
FoldedRow(current, summary) ==
    [current EXCEPT !.data = [current.data EXCEPT !.summary = summary, !.collapsed = TRUE],
                    !.updated_at = now]

fold(log_uuid, summary) ==
    /\ CoreInContext
    /\ summary # 0
    /\ log_uuid \in DOMAIN coreW
    /\ CoreWrite([coreW EXCEPT ![log_uuid] = FoldedRow(coreW[log_uuid], summary)])

\* A direct update that appends one item to a log: the caller reads the data,
\* appends, and hands the whole dictionary to EntityOperations.update_data.
append_item(log_uuid, item) ==
    /\ log_uuid \in DOMAIN coreW
    /\ Len(coreW[log_uuid].data.items) < MaxItems
    /\ update_data(log_uuid, [coreW[log_uuid].data EXCEPT !.items = Append(@, item)])

\* --------------------------------------------------- ArtifactOperations
\* The row commit_delta writes: data, hash and updated_at.
CommittedRow(current, new_content, delta_uuid) ==
    [current EXCEPT !.data = [current.data EXCEPT !.content = new_content,
                                                  !.deltas = Append(@, delta_uuid)],
                    !.hash = compute_content_hash(new_content),
                    !.updated_at = now]

\* commit_delta's checks as they would be without the optimistic-lock test.
CommitDeltaCheck_NoLock(artifact_uuid, ops, based_on_hash) ==
    IF artifact_uuid \notin DOMAIN coreW THEN "ResourceNotFound"
    ELSE IF coreW[artifact_uuid].type # "Artifact" THEN "ValueError"
    ELSE IF ~ParseOk(ops) THEN "ValueError"
    ELSE IF ~apply_delta_ops(coreW[artifact_uuid].data.content, ops).ok THEN "ValueError"
    ELSE "ok"

\* What commit_delta does before it writes: the exception it raises, or "ok".
CommitDeltaCheck(artifact_uuid, ops, based_on_hash) ==
    IF artifact_uuid \notin DOMAIN coreW THEN "ResourceNotFound"
    ELSE IF coreW[artifact_uuid].type # "Artifact" THEN "ValueError"
    ELSE IF coreW[artifact_uuid].hash # based_on_hash THEN "ConflictError"
    ELSE IF ~ParseOk(ops) THEN "ValueError"
    ELSE IF ~apply_delta_ops(coreW[artifact_uuid].data.content, ops).ok THEN "ValueError"
    ELSE "ok"

\* commit_delta, called in a Core scope.  The ArtifactDelta fact goes through a
\* Soil scope of its own (with get_soil() as soil), which commits on leaving;
\* then the entity row is updated and the Core connection committed.
\* fault: the call is cut between the two writes (the UPDATE raises, or the
\* process dies).
commit_delta(artifact_uuid, ops, based_on_hash, fault) ==
    /\ pc = "core"
    /\ LET check == CommitDeltaCheck(artifact_uuid, ops, based_on_hash)
           new_content == apply_delta_ops(coreW[artifact_uuid].data.content, ops).content
           delta_uuid == FreshFact(soil)
           delta_fact == Fact(delta_uuid, "ArtifactDelta", artifact_uuid, ops,
                              based_on_hash, compute_content_hash(new_content))
           inner == Soil__exit__(Db(soil, soil \cup {delta_fact}, "active"), FALSE)
       IN IF check # "ok"
          THEN /\ ret' = check
               /\ UNCHANGED <<coreVars, soilVars>>
          ELSE /\ FreshFactIds(soil) # {}
               /\ Len(new_content) <= MaxLines
               /\ soil' = inner.file
               /\ soilW' = inner.file
               /\ UNCHANGED soilTxn
               /\ IF fault
                  THEN /\ ret' = "fault"
                       /\ UNCHANGED <<coreVars>>
                  ELSE /\ SetCore(DbCommit(Db(core,
                              [coreW EXCEPT ![artifact_uuid] =
                                  CommittedRow(coreW[artifact_uuid], new_content, delta_uuid)],
                              "active")))
                       /\ ret' = "ok"
    /\ UNCHANGED <<now, extVars, pc, snapVars>>

\* The based_on_hash values of the commits of artifact a that succeeded: those
\* of the ArtifactDelta facts listed in its data.deltas.
Accepted(a) ==
    IF a \notin DOMAIN coreW THEN {}
    ELSE {f.based_on_hash : f \in {g \in soil : /\ g.type = "ArtifactDelta"
                                                /\ g.entity_id = a
                                                /\ \E i \in 1..Len(coreW[a].data.deltas) :
                                                      coreW[a].data.deltas[i] = g.uuid}}

\* The hashes a caller passes as based_on_hash: the one just read, one that an
\* earlier commit was based on, or a made-up one.
BasedOn(a) ==
    {WrongHash} \cup Accepted(a) \cup (IF a \in DOMAIN coreW THEN {coreW[a].hash} ELSE {})

\* ------------------------------- commit_delta by concurrent Core handles
\* Each caller has a Core handle and connection of its own and therefore sees
\* the committed tables; the steps below are the statements of commit_delta
\* in the order it issues them.
CommitCall(pc_, artifact_uuid, based_on_hash, data, new_content, delta_uuid, outcome) ==
    [pc |-> pc_, artifact_uuid |-> artifact_uuid, based_on_hash |-> based_on_hash,
     data |-> data, new_content |-> new_content, delta_uuid |-> delta_uuid,
     outcome |-> outcome]

\* SELECT uuid, type, data, hash; the checks; parse_delta_ops and
\* apply_delta_ops.  A SELECT opens no transaction and takes no lock.
cd_read(p, artifact_uuid, ops, based_on_hash) ==
    /\ pc = "idle"
    /\ callers[p].pc = "idle"
    /\ LET check == CommitDeltaCheck(artifact_uuid, ops, based_on_hash)
       IN IF check # "ok"
          THEN callers' = [callers EXCEPT ![p] =
                  CommitCall("done", artifact_uuid, based_on_hash, EmptyData, <<>>,
                             NoUuid, check)]
          ELSE LET new_content ==
                       apply_delta_ops(core[artifact_uuid].data.content, ops).content
               IN /\ Len(new_content) <= MaxLines
                  /\ callers' = [callers EXCEPT ![p] =
                        CommitCall("checked", artifact_uuid, based_on_hash,
                                   core[artifact_uuid].data, new_content, NoUuid, "none")]
    /\ UNCHANGED <<baseVars, today, system_relation, user_relation, context_frame, frames,
                   result, suspended, xpc, xlock>>

\* with get_soil() as soil: soil.create_fact(delta_fact) -- committed on
\* leaving the Soil scope.
cd_store(p) ==
    /\ pc = "idle"
    /\ callers[p].pc = "checked"
    /\ FreshFactIds(soil) # {}
    /\ LET c == callers[p]
           delta_fact == Fact(FreshFact(soil), "ArtifactDelta", c.artifact_uuid, <<>>,
                              c.based_on_hash, compute_content_hash(c.new_content))
       IN /\ soil' = soil \cup {delta_fact}
          /\ soilW' = soil \cup {delta_fact}
          /\ callers' = [callers EXCEPT ![p].pc = "stored",
                                        ![p].delta_uuid = delta_fact.uuid]
    /\ UNCHANGED <<now, coreVars, soilTxn, pc, snapVars, ret, today, system_relation,
                   user_relation, context_frame, frames, result, suspended, xpc, xlock>>

\* UPDATE entity SET data = ?, hash = ?, updated_at = ? WHERE uuid = ?, with
\* the data read at the start, and self._conn.commit().  The UPDATE takes the
\* write lock of core.db, which is free while no scope is open (pc = "idle"),
\* and applies to the row as it is now.
cd_update(p) ==
    /\ pc = "idle"
    /\ callers[p].pc = "stored"
    /\ callers[p].artifact_uuid \in DOMAIN core
    /\ LET c == callers[p]
           row == [core[c.artifact_uuid] EXCEPT
                      !.data = [c.data EXCEPT !.content = c.new_content,
                                              !.deltas = Append(@, c.delta_uuid)],
                      !.hash = compute_content_hash(c.new_content),
                      !.updated_at = now]
       IN /\ core' = [core EXCEPT ![c.artifact_uuid] = row]
          /\ coreW' = [core EXCEPT ![c.artifact_uuid] = row]
          /\ callers' = [callers EXCEPT ![p].pc = "done", ![p].outcome = "ok"]
    /\ UNCHANGED <<now, coreTxn, soilVars, pc, snapVars, ret, today, system_relation,
                   user_relation, context_frame, frames, result, suspended, xpc, xlock>>

\* The commit hashes of an artifact: the content hash each stored delta
\* produced.
CommitHashes(a) ==
    {f.result_hash : f \in {g \in soil : g.type = "ArtifactDelta" /\ g.entity_id = a}}

\* get_at_commit: the current state when commit_hash is the current content
\* hash, and the current state again (with a note) when it is not.
get_at_commit(artifact_uuid, commit_hash) ==
    /\ CoreInContext
    /\ result' =
          IF artifact_uuid \notin DOMAIN coreW THEN Result("ResourceNotFound", 0)
          ELSE IF coreW[artifact_uuid].type # "Artifact" THEN Result("ValueError", 0)
          ELSE LET content == coreW[artifact_uuid].data.content
                   current_hash == compute_content_hash(content)
               IN Result("ok", [hash |-> current_hash, content |-> content,
                                at_commit |-> commit_hash,
                                note |-> current_hash # commit_hash])
    /\ UNCHANGED <<baseVars, today, system_relation, user_relation, context_frame, frames,
                   suspended, auxVars>>

\* A direct call of apply_delta_ops: the new content, or ValueError.  The
\* function is pure, so one call per behaviour shows all it can do.
call_apply_delta_ops(content, ops) ==
    /\ result = NoResult
    /\ result' = LET r == apply_delta_ops(content, ops)
                 IN Result(IF r.ok THEN "ok" ELSE "ValueError",
                           [content |-> content, ops |-> ops,
                            new_content |-> IF r.ok THEN r.content ELSE <<>>])
    /\ UNCHANGED <<baseVars, today, system_relation, user_relation, context_frame, frames,
                   suspended, auxVars>>

\* ------------------------------------------- cross_database_transaction
\* CrossDatabaseTransaction.__enter__: BEGIN EXCLUSIVE on Soil, then on Core.
XEnter ==
    /\ pc = "idle"
    /\ pc' = "xdb"
    /\ soilTxn' = "active"
    /\ coreTxn' = "active"
    /\ lastExit' = "open"
    /\ soil0' = soil
    /\ core0' = core
    /\ soilX' = {}
    /\ coreX' = <<>>
    /\ ret' = NoRet
    /\ UNCHANGED <<now, extVars, core, coreW, soil, soilW>>

\* _rollback_both as it would be if it rolled back the Core connection only.
rollback_both_CoreOnly(s, c) == [s |-> s, c |-> DbRollback(c)]

\* _rollback_both, as [s, c]: rollback on the Soil and on the Core connection.
rollback_both(s, c) == [s |-> DbRollback(s), c |-> DbRollback(c)]

\* The finally clause of __exit__: soil.__exit__(None, None, None), then
\* core.__exit__(None, None, None).
CloseBoth(p) == [s |-> Soil__exit__(p.s, FALSE), c |-> Core__exit__(p.c, FALSE)]

XFinish(p, how) ==
    /\ SetSoil(p.s)
    /\ SetCore(p.c)
    /\ pc' = "idle"
    /\ lastExit' = how
    /\ ret' = NoRet

\* __exit__ with an exception raised by the body.
XBodyRaise ==
    /\ pc = "xdb"
    /\ soilX' = soilW
    /\ coreX' = coreW
    /\ XFinish(CloseBoth(rollback_both(Db(soil, soilW, soilTxn), Db(core, coreW, coreTxn))),
               "body_raised")
    /\ UNCHANGED <<now, extVars, soil0, core0>>

\* __exit__ without exception, first half of _commit_coordinated: the Soil
\* commit.  ok = FALSE: the commit raises; both roll back and RuntimeError
\* leaves the block.
XCommitSoil(ok) ==
    /\ pc = "xdb"
    /\ soilX' = soilW
    /\ coreX' = coreW
    /\ IF ok
       THEN /\ SetSoil(DbCommit(Db(soil, soilW, soilTxn)))
            /\ pc' = "xdb_soil_done"
            /\ ret' = NoRet
            /\ UNCHANGED <<coreVars, lastExit>>
       ELSE XFinish(CloseBoth(rollback_both(Db(soil, soilW, soilTxn),
                                            Db(core, coreW, coreTxn))),
                    "soil_commit_failed")
    /\ UNCHANGED <<now, extVars, soil0, core0>>

\* The Core commit as it would be if its except branch raised ConsistencyError
\* without rolling Core back first: the finally clause then commits Core.
XCommitCore_NoRollback(ok) ==
    /\ pc = "xdb_soil_done"
    /\ LET s == Db(soil, soilW, soilTxn)
           c == Db(core, coreW, coreTxn)
       IN IF ok
          THEN XFinish(CloseBoth([s |-> s, c |-> DbCommit(c)]), "ok")
          ELSE XFinish(CloseBoth([s |-> s, c |-> c]), "core_commit_failed")
    /\ UNCHANGED <<now, extVars, soil0, core0, soilX, coreX>>

\* Second half of _commit_coordinated: the Core commit.  ok = FALSE: the
\* commit raises, Core is rolled back and ConsistencyError leaves the block.
XCommitCore(ok) ==
    /\ pc = "xdb_soil_done"
    /\ LET s == Db(soil, soilW, soilTxn)
           c == Db(core, coreW, coreTxn)
       IN IF ok
          THEN XFinish(CloseBoth([s |-> s, c |-> DbCommit(c)]), "ok")
          ELSE XFinish(CloseBoth([s |-> s, c |-> DbRollback(c)]), "core_commit_failed")
    /\ UNCHANGED <<now, extVars, soil0, core0, soilX, coreX>>

\* The process is killed after the Soil commit and before the Core commit.
XKilled ==
    /\ pc = "xdb_soil_done"
    /\ XFinish([s |-> DbClose(Db(soil, soilW, soilTxn)),
                c |-> DbClose(Db(core, coreW, coreTxn))], "killed")
    /\ UNCHANGED <<now, extVars, soil0, core0, soilX, coreX>>

\* _rollback_both when a rollback call may raise: each call sits in its own
\* try/except that prints a warning and goes on, so a connection whose
\* rollback failed keeps its open transaction.
rollback_both_best_effort(s, c, soil_ok, core_ok) ==
    [s |-> IF soil_ok THEN DbRollback(s) ELSE s,
     c |-> IF core_ok THEN DbRollback(c) ELSE c]

\* __exit__ with an exception raised by the body, a rollback possibly failing.
XBodyRaiseBestEffort(soil_ok, core_ok) ==
    /\ pc = "xdb"
    /\ soilX' = soilW
    /\ coreX' = coreW
    /\ XFinish(CloseBoth(rollback_both_best_effort(Db(soil, soilW, soilTxn),
                                                   Db(core, coreW, coreTxn),
                                                   soil_ok, core_ok)),
               "body_raised")
    /\ UNCHANGED <<now, extVars, soil0, core0>>

\* __exit__ without exception when the Soil commit raises: _rollback_both, a
\* rollback possibly failing, then RuntimeError leaves the block.
XCommitSoilFails(soil_ok, core_ok) ==
    /\ pc = "xdb"
    /\ soilX' = soilW
    /\ coreX' = coreW
    /\ XFinish(CloseBoth(rollback_both_best_effort(Db(soil, soilW, soilTxn),
                                                   Db(core, coreW, coreTxn),
                                                   soil_ok, core_ok)),
               "soil_commit_failed")
    /\ UNCHANGED <<now, extVars, soil0, core0>>

\* --------------------------------------------------- check_consistency
strip_prefix(id) == id

\* _entity_exists_in_core: SELECT 1 FROM entity WHERE uuid = ?
entity_exists_in_core(entity_id) == strip_prefix(entity_id) \in DOMAIN core

\* _find_orphaned_deltas: live EntityDelta items whose entity_id has no entity.
find_orphaned_deltas ==
    {f \in soil : /\ f.type = "EntityDelta"
                  /\ f.superseded_by = NoUuid
                  /\ f.entity_id # NoUuid
                  /\ ~entity_exists_in_core(f.entity_id)}

\* _find_broken_hash_chains: rows whose previous_hash is no row's hash.
find_broken_hash_chains ==
    {u \in DOMAIN core : /\ core[u].previous_hash # NoHash
                         /\ ~\E v \in DOMAIN core : core[v].hash = core[u].previous_hash}

\* check_consistency as it would be if orphans were looked at before broken
\* chains.
check_consistency_OrphansFirst ==
    IF find_orphaned_deltas # {} THEN "INCONSISTENT"
    ELSE IF find_broken_hash_chains # {} THEN "SAFE_MODE"
    ELSE "NORMAL"

check_consistency ==
    IF find_broken_hash_chains # {} THEN "SAFE_MODE"
    ELSE IF find_orphaned_deltas # {} THEN "INCONSISTENT"
    ELSE "NORMAL"

\* The startup check: a process with no scope open calls check_consistency,
\* which reads both databases through connections of its own.
startup_check ==
    /\ pc = "idle"
    /\ result' = Result(check_consistency, 0)
    /\ UNCHANGED <<baseVars, today, system_relation, user_relation, context_frame, frames,
                   suspended, auxVars>>

\* ------------------------------------------------ Soil system relations
RelationKinds == {"cites", "triggers"}
RelationUuids == 1..MaxRelations

SystemRelation(uuid, kind, source, target) ==
    [uuid |-> uuid, kind |-> kind, source |-> source, target |-> target]

\* The rows of tbl stored under the (kind, source, target) of relation.
SameKey(tbl, relation) ==
    {r \in tbl : r.kind = relation.kind /\ r.source = relation.source
                 /\ r.target = relation.target}

\* The INSERT fails on the table's uniqueness constraints: uuid is the primary
\* key and (kind, source, target) is unique.
IntegrityError(tbl, relation) ==
    \/ \E r \in tbl : r.uuid = relation.uuid
    \/ SameKey(tbl, relation) # {}

\* generate_soil_uuid() for a relation: a UUID no stored relation carries.
FreshRelationUuids == RelationUuids \ {r.uuid : r \in system_relation}
FreshRelationUuid == CHOOSE u \in FreshRelationUuids : \A v \in FreshRelationUuids : u <= v

\* The except branch of create_relation as it would be if it returned the
\* UUID of the relation it was given.
ExistingRelationUuid_Own(tbl, relation) == relation.uuid

\* The except branch of create_relation: SELECT uuid by (kind, source, target),
\* row[0] if a row is found, else the UUID of the relation given.
ExistingRelationUuid(tbl, relation) ==
    IF SameKey(tbl, relation) # {}
    THEN (CHOOSE r \in SameKey(tbl, relation) : TRUE).uuid
    ELSE relation.uuid

\* Soil.create_relation.
create_relation(relation) ==
    /\ SoilInContext
    /\ IF IntegrityError(system_relation, relation)
       THEN /\ UNCHANGED system_relation
            /\ result' = Result("ok", ExistingRelationUuid(system_relation, relation))
       ELSE /\ system_relation' = system_relation \cup {relation}
            /\ result' = Result("ok", relation.uuid)
    /\ soilTxn' = "active"
    /\ UNCHANGED <<now, coreVars, soil, soilW, pc, snapVars, ret,
                   today, user_relation, context_frame, frames, suspended, auxVars>>

\* -------------------------------------------------- RelationOperations
USER_RELATION_KINDS == {"explicit_link"}
UserRelationUuids == 1..MaxUserRelations

\* current_day() moves on between calls.
NextDay ==
    /\ today < MaxDay
    /\ today' = today + 1
    /\ result' = NoResult
    /\ UNCHANGED <<baseVars, system_relation, user_relation, context_frame, frames, suspended, auxVars>>

\* self._conn.commit() on the Core connection.
CommitCore == SetCore(DbCommit(Db(core, coreW, "active")))

\* uid.generate_uuid() for a user relation.
FreshUserRelationUuids == UserRelationUuids \ DOMAIN user_relation
FreshUserRelationUuid ==
    CHOOSE u \in FreshUserRelationUuids : \A v \in FreshUserRelationUuids : u <= v

\* RelationOperations.create: INSERT INTO user_relation, commit.
relation_create(kind, target, initial_horizon_days) ==
    /\ CoreInContext
    /\ FreshUserRelationUuids # {}
    /\ IF kind \notin USER_RELATION_KINDS
       THEN /\ result' = Result("ValueError", 0)
            /\ UNCHANGED <<user_relation, coreVars>>
       ELSE /\ user_relation' = Put(user_relation, FreshUserRelationUuid,
                                    [target |-> target,
                                     time_horizon |-> today + initial_horizon_days,
                                     last_access_at |-> today,
                                     created_at |-> today])
            /\ result' = Result("ok", FreshUserRelationUuid)
            /\ CommitCore
    /\ UNCHANGED <<now, soilVars, pc, snapVars, ret,
                   today, system_relation, context_frame, frames, suspended, auxVars>>

\* The row commit_delta asks RelationOperations.create for: kind triggers,
\* from the source message to the new delta, initial_horizon_days = 7.
TriggersRelation(source, target) ==
    [kind |-> "triggers", source |-> source, target |-> target,
     time_horizon |-> today + 7, last_access_at |-> today, created_at |-> today]

\* commit_delta called with a source_message_uuid: after the delta is stored
\* and the artifact row committed, it calls relation.create(kind="triggers"),
\* which raises ValueError for a kind outside USER_RELATION_KINDS.
commit_delta_from(artifact_uuid, ops, based_on_hash, source_message_uuid) ==
    /\ pc = "core"
    /\ LET check == CommitDeltaCheck(artifact_uuid, ops, based_on_hash)
           new_content == apply_delta_ops(coreW[artifact_uuid].data.content, ops).content
           delta_uuid == FreshFact(soil)
           delta_fact == Fact(delta_uuid, "ArtifactDelta", artifact_uuid, ops,
                              based_on_hash, compute_content_hash(new_content))
           inner == Soil__exit__(Db(soil, soil \cup {delta_fact}, "active"), FALSE)
       IN IF check # "ok"
          THEN /\ ret' = check
               /\ UNCHANGED <<coreVars, soilVars, user_relation>>
          ELSE /\ FreshFactIds(soil) # {}
               /\ FreshUserRelationUuids # {}
               /\ Len(new_content) <= MaxLines
               /\ soil' = inner.file
               /\ soilW' = inner.file
               /\ UNCHANGED soilTxn
               /\ SetCore(DbCommit(Db(core,
                      [coreW EXCEPT ![artifact_uuid] =
                          CommittedRow(coreW[artifact_uuid], new_content, delta_uuid)],
                      "active")))
               /\ IF "triggers" \in USER_RELATION_KINDS
                  THEN /\ user_relation' =
                            Put(user_relation, FreshUserRelationUuid,
                                TriggersRelation(source_message_uuid, delta_uuid))
                       /\ ret' = "ok"
                  ELSE /\ ret' = "ValueError"
                       /\ UNCHANGED user_relation
    /\ UNCHANGED <<now, pc, snapVars, today, system_relation, context_frame, frames, result,
                   suspended, auxVars>>

\* horizon_increase as it would be if delta were taken the other way round
\* (last_access - today).
HorizonIncrease_Reversed(delta) == 0 - ((12 * delta) \div 10)

\* int(delta * SAFETY_COEFFICIENT) with SAFETY_COEFFICIENT = 1.2: int()
\* truncates towards zero.
HorizonIncrease(delta) ==
    IF delta >= 0 THEN (12 * delta) \div 10 ELSE 0 - ((12 * (0 - delta)) \div 10)

\* RelationOperations.update_time_horizon.
update_time_horizon(relation_id) ==
    /\ CoreInContext
    /\ IF relation_id \notin DOMAIN user_relation
       THEN /\ result' = Result("ResourceNotFound", 0)
            /\ UNCHANGED <<user_relation, coreVars>>
       ELSE LET row == user_relation[relation_id]
                delta == today - row.last_access_at
            IN /\ user_relation' =
                      [user_relation EXCEPT ![relation_id] =
                          [row EXCEPT !.time_horizon = row.time_horizon + HorizonIncrease(delta),
                                      !.last_access_at = today]]
               /\ result' = Result("None", 0)
               /\ CommitCore
    /\ UNCHANGED <<now, soilVars, pc, snapVars, ret,
                   today, system_relation, context_frame, frames, suspended, auxVars>>

\* RelationOperations.expire: time_horizon = current_day() - 1, commit, then
\* ResourceNotFound if no row was updated.
expire(relation_id) ==
    /\ CoreInContext
    /\ IF relation_id \notin DOMAIN user_relation
       THEN /\ result' = Result("ResourceNotFound", 0)
            /\ UNCHANGED user_relation
       ELSE /\ user_relation' = [user_relation EXCEPT ![relation_id].time_horizon = today - 1]
            /\ result' = Result("None", 0)
    /\ CommitCore
    /\ UNCHANGED <<now, soilVars, pc, snapVars, ret,
                   today, system_relation, context_frame, frames, suspended, auxVars>>

\* The rows of user_relation with the given target.
Inbound(target) == {r \in DOMAIN user_relation : user_relation[r].target = target}

\* SELECT MAX(time_horizon) over a non-empty set of rows.
MaxHorizon(rows) ==
    CHOOSE h \in {user_relation[r].time_horizon : r \in rows} :
        \A r \in rows : user_relation[r].time_horizon <= h

\* RelationOperations.fact_time_horizon: MAX(time_horizon) WHERE target = ?,
\* None when the aggregate is NULL.
fact_time_horizon(fact_uuid) ==
    /\ CoreInContext
    /\ result' = IF Inbound(fact_uuid) # {}
                 THEN Result("ok", MaxHorizon(Inbound(fact_uuid)))
                 ELSE Result("None", 0)
    /\ UNCHANGED <<baseVars, today, system_relation, user_relation, context_frame, frames, suspended, auxVars>>

\* --------------------------------------------------- ContextOperations
CONTEXT_SIZE_MIN == 3
CONTEXT_SIZE_MAX == 20

\* PRIMITIVE_TYPES as it would be with no type classified primitive.
PRIMITIVE_TYPES_None == {}

PRIMITIVE_TYPES == {"Schema", "SystemConfig", "ContextFrame"}

OwnerTypes == {"operator", "agent", "scope"}
FrameUuids == 1..MaxFrames

\* uid.generate_uuid() for a context frame.
FreshFrameUuids == FrameUuids \ DOMAIN context_frame
FreshFrameUuid == CHOOSE u \in FreshFrameUuids : \A v \in FreshFrameUuids : u <= v

\* The containers of a new frame as they would be if a subordinate frame
\* started empty like any other.
InheritedContainers_Empty(parent_frame_uuid) == <<>>

\* The containers of a new frame: a copy of the parent's stored containers if
\* it is subordinate, else the empty list.
InheritedContainers(parent_frame_uuid) ==
    IF parent_frame_uuid # NoUuid THEN context_frame[parent_frame_uuid].containers ELSE <<>>

\* A ContextFrame, as stored in a context_frame row and as held in memory.
\* active_scopes None (non-operator frames) is modelled as the empty list,
\* which is how every use reads it (active_scopes or []).
\* view_timeline is held in memory only: no column stores it, and a frame
\* read from its row has none.
ContextFrame(owner, owner_type, containers, parent_frame_uuid) ==
    [owner |-> owner, owner_type |-> owner_type, containers |-> containers,
     view_timeline |-> <<>>,
     parent_frame_uuid |-> parent_frame_uuid, active_scopes |-> <<>>,
     primary_scope |-> NoUuid]

\* ContextOperations._create_context_frame.
create_context_frame(owner, owner_type, parent_frame_uuid) ==
    /\ CoreInContext
    /\ FreshFrameUuids # {}
    /\ IF parent_frame_uuid # NoUuid /\ parent_frame_uuid \notin DOMAIN context_frame
       THEN /\ result' = Result("ResourceNotFound", 0)
            /\ UNCHANGED <<context_frame, frames, coreTxn>>
       ELSE LET frame == ContextFrame(owner, owner_type, InheritedContainers(parent_frame_uuid),
                                      parent_frame_uuid)
            IN /\ context_frame' = Put(context_frame, FreshFrameUuid, frame)
               /\ frames' = Put(frames, FreshFrameUuid, frame)
               /\ coreTxn' = "active"
               /\ result' = Result("ok", FreshFrameUuid)
    /\ UNCHANGED <<now, core, coreW, soilVars, pc, snapVars, ret,
                   today, system_relation, user_relation, suspended, auxVars>>

\* list.remove(x): drops the first occurrence of x.
RECURSIVE RemoveFirst(_, _)
RemoveFirst(seq, x) ==
    IF seq = <<>> THEN <<>>
    ELSE IF Head(seq) = x THEN Tail(seq)
    ELSE <<Head(seq)>> \o RemoveFirst(Tail(seq), x)

InList(seq, x) == \E i \in 1..Len(seq) : seq[i] = x

\* The eviction step as it would be if the list were never cut.
Evict_Never(containers, context_size) == containers

\* containers[:context_size] when the list is over capacity.
Evict(containers, context_size) ==
    IF Len(containers) > context_size THEN SubSeq(containers, 1, context_size)
    ELSE containers

\* The visit is of an entity whose type is primitive (an unknown UUID is
\* taken for an item and admitted).
PrimitiveVisit(visited_uuid) ==
    /\ strip_prefix(visited_uuid) \in DOMAIN coreW
    /\ coreW[strip_prefix(visited_uuid)].type \in PRIMITIVE_TYPES

\* ContextOperations.update_containers on the frame object frames[f].
update_containers(f, visited_uuid, context_size) ==
    /\ CoreInContext
    /\ f \in DOMAIN frames
    /\ IF ~(CONTEXT_SIZE_MIN <= context_size /\ context_size <= CONTEXT_SIZE_MAX)
       THEN /\ result' = Result("ValidationError", 0)
            /\ UNCHANGED <<context_frame, frames, coreTxn>>
       ELSE IF PrimitiveVisit(visited_uuid)
       THEN /\ result' = Result("ok", f)
            /\ UNCHANGED <<context_frame, frames, coreTxn>>
       ELSE LET moved == IF InList(frames[f].containers, visited_uuid)
                         THEN RemoveFirst(frames[f].containers, visited_uuid)
                         ELSE frames[f].containers
                containers == Evict(<<visited_uuid>> \o moved, context_size)
            IN /\ context_frame' = [context_frame EXCEPT ![f].containers = containers]
               /\ frames' = [frames EXCEPT ![f].containers = containers]
               /\ coreTxn' = "active"
               /\ result' = Result("ok", f)
    /\ UNCHANGED <<now, core, coreW, soilVars, pc, snapVars, ret,
                   today, system_relation, user_relation, suspended, auxVars>>

\* The scopes an operator enters, leaves and focuses.
ScopeUuids == 1..MaxScopes

\* The owner check as it would be if every frame could hold scopes.
OperatorOnly_Any(frame) == TRUE

\* Only operators can have active scopes.
OperatorOnly(frame) == frame.owner_type = "operator"

\* The focus check as it would be if any scope could be focused.
FocusAllowed_Any(frame, scope_uuid) == TRUE

\* focus_scope requires the scope in the active set of the frame object.
FocusAllowed(frame, scope_uuid) == InList(frame.active_scopes, scope_uuid)

\* The primary scope after enter_scope as it would be if enter also focused.
PrimaryAfterEnter_AutoFocus(primary_scope, scope_uuid) == scope_uuid

\* The primary scope after enter_scope: the entered scope if there was none.
PrimaryAfterEnter(primary_scope, scope_uuid) ==
    IF primary_scope = NoUuid THEN scope_uuid ELSE primary_scope

\* A scope verb refused with ValidationError: nothing is written.
ScopeRejected ==
    /\ result' = Result("ValidationError", 0)
    /\ UNCHANGED <<context_frame, frames, coreTxn, suspended>>

\* ContextOperations.enter_scope on the frame object frames[f].
enter_scope(f, scope_uuid) ==
    /\ CoreInContext
    /\ f \in DOMAIN frames
    /\ IF ~OperatorOnly(frames[f]) \/ InList(frames[f].active_scopes, scope_uuid)
       THEN ScopeRejected
       ELSE LET active_scopes == Append(frames[f].active_scopes, scope_uuid)
                primary_scope == PrimaryAfterEnter(frames[f].primary_scope, scope_uuid)
            IN /\ context_frame' =
                     [context_frame EXCEPT
                        ![f].active_scopes = active_scopes,
                        ![f].primary_scope =
                            IF frames[f].primary_scope = NoUuid THEN primary_scope ELSE @]
               /\ frames' = [frames EXCEPT ![f].active_scopes = active_scopes,
                                            ![f].primary_scope = primary_scope]
               /\ coreTxn' = "active"
               /\ suspended' = suspended \ {scope_uuid}
               /\ result' = Result("ok", f)
    /\ UNCHANGED <<now, core, coreW, soilVars, pc, snapVars, ret,
                   today, system_relation, user_relation, auxVars>>

\* ContextOperations.leave_scope on the frame object frames[f].
leave_scope(f, scope_uuid) ==
    /\ CoreInContext
    /\ f \in DOMAIN frames
    /\ IF ~OperatorOnly(frames[f]) \/ ~InList(frames[f].active_scopes, scope_uuid)
       THEN ScopeRejected
       ELSE LET active_scopes == RemoveFirst(frames[f].active_scopes, scope_uuid)
                leaving_primary == frames[f].primary_scope = scope_uuid
            IN /\ context_frame' =
                     [context_frame EXCEPT
                        ![f].active_scopes = active_scopes,
                        ![f].primary_scope = IF leaving_primary THEN NoUuid ELSE @]
               /\ frames' =
                     [frames EXCEPT
                        ![f].active_scopes = active_scopes,
                        ![f].primary_scope = IF leaving_primary THEN NoUuid ELSE @]
               /\ coreTxn' = "active"
               /\ suspended' = suspended \cup {scope_uuid}
               /\ result' = Result("ok", f)
    /\ UNCHANGED <<now, core, coreW, soilVars, pc, snapVars, ret,
                   today, system_relation, user_relation, auxVars>>

\* ContextOperations.focus_scope on the frame object frames[f].
focus_scope(f, scope_uuid) ==
    /\ CoreInContext
    /\ f \in DOMAIN frames
    /\ IF ~OperatorOnly(frames[f]) \/ ~FocusAllowed(frames[f], scope_uuid)
       THEN ScopeRejected
       ELSE /\ context_frame' = [context_frame EXCEPT ![f].primary_scope = scope_uuid]
            /\ frames' = [frames EXCEPT ![f].primary_scope = scope_uuid]
            /\ coreTxn' = "active"
            /\ result' = Result("ok", f)
            /\ UNCHANGED suspended
    /\ UNCHANGED <<now, core, coreW, soilVars, pc, snapVars, ret,
                   today, system_relation, user_relation, auxVars>>

\* The rows get_context_frame selects: participant = owner, and project_uuid
\* NULL for an operator, else equal to owner_type.
FramesOf(tbl, owner, owner_type) ==
    {u \in DOMAIN tbl : tbl[u].owner = owner /\ tbl[u].owner_type = owner_type}

\* The ContextFrame object built from a row: view_timeline=[].
FrameFromRow(row) == [row EXCEPT !.view_timeline = <<>>]

\* ContextOperations.get_context_frame(owner, owner_type): the frame of the
\* row found, as a new object, else a new frame.
get_context_frame(owner, owner_type) ==
    \/ /\ CoreInContext
       /\ \E u \in FramesOf(context_frame, owner, owner_type) :
             /\ frames' = Put(frames, u, FrameFromRow(context_frame[u]))
             /\ result' = Result("ok", u)
       /\ UNCHANGED <<baseVars, today, system_relation, user_relation, context_frame,
                      suspended, auxVars>>
    \/ /\ FramesOf(context_frame, owner, owner_type) = {}
       /\ create_context_frame(owner, owner_type, NoUuid)

\* ContextOperations.get_context_frame_by_uuid: a second ContextFrame object
\* built from the row of a frame the caller already holds an object of.
get_context_frame_by_uuid(p, context_uuid) ==
    /\ CoreInContext
    /\ callers[p].pc = "idle"
    /\ context_uuid \in DOMAIN context_frame
    /\ context_uuid \in DOMAIN frames
    /\ callers' = [callers EXCEPT ![p] =
                      [pc |-> "holding", uuid |-> context_uuid,
                       frame |-> FrameFromRow(context_frame[context_uuid])]]
    /\ result' = Result("ok", context_uuid)
    /\ UNCHANGED <<baseVars, today, system_relation, user_relation, context_frame, frames,
                   suspended, xpc, xlock>>

\* The caller goes on with its other object of the frame: the scope verbs
\* that follow are called with the object that was set aside.
use_other_object(p) ==
    /\ callers[p].pc = "holding"
    /\ callers[p].uuid \in DOMAIN frames
    /\ frames' = [frames EXCEPT ![callers[p].uuid] = callers[p].frame]
    /\ callers' = [callers EXCEPT ![p].frame = frames[callers[p].uuid]]
    /\ UNCHANGED <<baseVars, today, system_relation, user_relation, context_frame, result,
                   suspended, xpc, xlock>>

\* The data of a View entity: the prev the caller gave and the frame.
ViewData(prev, context_frame_uuid) ==
    [prev |-> prev, context_frame_uuid |-> context_frame_uuid]

\* The View entities stored for a frame.
ViewsOf(tbl, context_frame_uuid) ==
    {v \in DOMAIN tbl : /\ tbl[v].type = "View"
                        /\ tbl[v].data.context_frame_uuid = context_frame_uuid}

\* ContextOperations.create_view: actions is the number of ViewActions given.
create_view(context_frame_uuid, actions, prev) ==
    /\ CoreInContext
    /\ IF actions = 0 \/ context_frame_uuid \notin DOMAIN context_frame
       THEN /\ result' = Result("ValidationError", 0)
            /\ UNCHANGED <<coreW, coreTxn>>
       ELSE /\ Uuids \ DOMAIN coreW # {}
            /\ coreW' = Put(coreW, FreshUuid,
                            NewRow("View", ViewData(prev, context_frame_uuid)))
            /\ coreTxn' = "active"
            /\ result' = Result("ok", FreshUuid)
    /\ ret' = NoRet
    /\ UNCHANGED <<now, core, soilVars, pc, snapVars,
                   today, system_relation, user_relation, context_frame, frames, suspended, auxVars>>

\* The frame object after append_view: the View UUID is put at the end of a
\* copy of view_timeline; neither the View nor any row is written.
AppendedFrame(frame, view_uuid) ==
    [frame EXCEPT !.view_timeline = Append(@, view_uuid)]

\* ContextOperations.append_view on the frame object frames[f]: it uses no
\* connection, so it runs inside and outside a Core scope alike.
append_view(f, view_uuid) ==
    /\ f \in DOMAIN frames
    /\ Len(frames[f].view_timeline) < MaxTimeline
    /\ frames' = [frames EXCEPT ![f] = AppendedFrame(frames[f], view_uuid)]
    /\ result' = Result("ok", f)
    /\ UNCHANGED <<baseVars, today, system_relation, user_relation, context_frame,
                   suspended, auxVars>>

\* The for loop of append_view_to_contexts over the list given, on st =
\* [frames, ok]: an element that is no frame object (NoUuid, for None) makes
\* append_view raise AttributeError, which ends the loop.
RECURSIVE AppendToEach(_, _, _)
AppendToEach(st, view_uuid, ctxs) ==
    IF ctxs = <<>> THEN st
    ELSE IF Head(ctxs) \notin DOMAIN st.frames THEN [st EXCEPT !.ok = FALSE]
    ELSE AppendToEach([st EXCEPT !.frames[Head(ctxs)] = AppendedFrame(@, view_uuid)],
                      view_uuid, Tail(ctxs))

\* ContextOperations.append_view_to_contexts.
append_view_to_contexts(view_uuid, ctxs) ==
    LET st == AppendToEach([frames |-> frames, ok |-> TRUE], view_uuid, ctxs)
    IN /\ \A f \in DOMAIN st.frames : Len(st.frames[f].view_timeline) <= MaxTimeline
       /\ frames' = st.frames
       /\ result' = IF st.ok THEN Result("None", 0) ELSE Result("AttributeError", 0)
       /\ UNCHANGED <<baseVars, today, system_relation, user_relation, context_frame,
                      suspended, auxVars>>

\* ------------------------------------------ calls outside the scope
\* Core._get_conn() when the Core is not inside its with block: the operation
\* that asked for the connection raises RuntimeError before it uses it.
core_call_outside ==
    /\ ~CoreInContext
    /\ result' = Result("RuntimeError", 0)
    /\ UNCHANGED <<baseVars, today, system_relation, user_relation, context_frame, frames,
                   suspended, auxVars>>

\* Soil._get_connection() when the Soil is not inside its with block.
soil_call_outside ==
    /\ ~SoilInContext
    /\ result' = Result("RuntimeError", 0)
    /\ UNCHANGED <<baseVars, today, system_relation, user_relation, context_frame, frames,
                   suspended, auxVars>>

\* ------------------------------- get_context_frame by several callers
\* Each caller runs `with get_core() as core: core.context.get_context_frame(
\* owner, owner_type)` on a connection of its own; context_frame is here the
\* committed table, and a caller's uncommitted INSERT is kept in callers.

\* The SELECT of get_context_frame (the connection is in autocommit mode: a
\* SELECT opens no transaction).
call_select(p, owner, owner_type) ==
    /\ callers[p].pc = "idle"
    /\ LET found == FramesOf(context_frame, owner, owner_type)
       IN IF found # {}
          THEN \E u \in found :
                  callers' = [callers EXCEPT ![p] =
                                 [pc |-> "returned", owner |-> owner,
                                  owner_type |-> owner_type, uuid |-> u]]
          ELSE callers' = [callers EXCEPT ![p] =
                              [pc |-> "missing", owner |-> owner,
                               owner_type |-> owner_type, uuid |-> NoUuid]]
    /\ UNCHANGED <<baseVars, today, system_relation, user_relation, context_frame, frames,
                   result, suspended, xpc, xlock>>

\* The INSERT of _create_context_frame: it opens a transaction, which takes
\* the write lock of core.db, and waits while another connection holds it.
call_insert(p) ==
    /\ callers[p].pc = "missing"
    /\ xlock.core = NoCaller
    /\ FreshFrameUuids # {}
    /\ callers' = [callers EXCEPT ![p].pc = "inserted", ![p].uuid = FreshFrameUuid]
    /\ xlock' = [xlock EXCEPT !.core = p]
    /\ UNCHANGED <<baseVars, today, system_relation, user_relation, context_frame, frames,
                   result, suspended, xpc>>

\* Core.__exit__ after the INSERT: commit, which releases the write lock.
call_exit(p) ==
    /\ callers[p].pc = "inserted"
    /\ context_frame' = Put(context_frame, callers[p].uuid,
                            ContextFrame(callers[p].owner, callers[p].owner_type,
                                         <<>>, NoUuid))
    /\ callers' = [callers EXCEPT ![p].pc = "returned"]
    /\ xlock' = [xlock EXCEPT !.core = NoCaller]
    /\ UNCHANGED <<baseVars, today, system_relation, user_relation, frames,
                   result, suspended, xpc>>

\* The caller has used the frame it was given and may call again.
call_done(p) ==
    /\ callers[p].pc = "returned"
    /\ callers' = [callers EXCEPT ![p] = IdleCall]
    /\ UNCHANGED <<baseVars, today, system_relation, user_relation, context_frame, frames,
                   result, suspended, xpc, xlock>>

\* ------------------------- cross_database_transaction by several callers
\* The order of the two BEGIN EXCLUSIVE as it would be if it depended on the
\* caller.
LockOrder_ByCaller(p) == IF p = 1 THEN <<"soil", "core">> ELSE <<"core", "soil">>

\* __enter__ issues BEGIN EXCLUSIVE on the Soil connection, then on the Core
\* connection.
LockOrder(p) == <<"soil", "core">>

\* The caller starts `with coordinator.cross_database_transaction()`: both
\* handles are created and entered, no lock is held yet.
x_begin(p) ==
    /\ xpc[p] = "idle"
    /\ xpc' = [xpc EXCEPT ![p] = "want_first"]
    /\ UNCHANGED <<baseVars, today, system_relation, user_relation, context_frame, frames,
                   result, suspended, callers, xlock>>

\* The first BEGIN EXCLUSIVE is granted.
x_lock_first(p) ==
    /\ xpc[p] = "want_first"
    /\ xlock[LockOrder(p)[1]] = NoCaller
    /\ xlock' = [xlock EXCEPT ![LockOrder(p)[1]] = p]
    /\ xpc' = [xpc EXCEPT ![p] = "want_second"]
    /\ UNCHANGED <<baseVars, today, system_relation, user_relation, context_frame, frames,
                   result, suspended, callers>>

\* The second BEGIN EXCLUSIVE is granted: __enter__ returns (soil, core).
x_lock_second(p) ==
    /\ xpc[p] = "want_second"
    /\ xlock[LockOrder(p)[2]] = NoCaller
    /\ xlock' = [xlock EXCEPT ![LockOrder(p)[2]] = p]
    /\ xpc' = [xpc EXCEPT ![p] = "body"]
    /\ UNCHANGED <<baseVars, today, system_relation, user_relation, context_frame, frames,
                   result, suspended, callers>>

\* A BEGIN EXCLUSIVE that finds the lock held gives up after the busy timeout:
\* OperationalError leaves __enter__, so __exit__ never runs and a lock
\* already taken stays with the open connection.
x_busy(p) ==
    /\ \/ /\ xpc[p] = "want_first"
          /\ xlock[LockOrder(p)[1]] \notin {NoCaller, p}
          /\ xpc' = [xpc EXCEPT ![p] = "idle"]
       \/ /\ xpc[p] = "want_second"
          /\ xlock[LockOrder(p)[2]] \notin {NoCaller, p}
          /\ xpc' = [xpc EXCEPT ![p] = "abandoned"]
    /\ UNCHANGED <<baseVars, today, system_relation, user_relation, context_frame, frames,
                   result, suspended, callers, xlock>>

\* The abandoned connections are closed when they are collected: the open
\* transaction is rolled back and its lock released.
x_collect(p) ==
    /\ xpc[p] = "abandoned"
    /\ xlock' = [db \in DOMAIN xlock |-> IF xlock[db] = p THEN NoCaller ELSE xlock[db]]
    /\ xpc' = [xpc EXCEPT ![p] = "idle"]
    /\ UNCHANGED <<baseVars, today, system_relation, user_relation, context_frame, frames,
                   result, suspended, callers>>

\* __exit__, first half: the Soil connection commits (_commit_coordinated) or
\* rolls back (_rollback_both), which releases its lock.
x_end_soil(p, exc) ==
    /\ xpc[p] = "body"
    /\ xlock' = [xlock EXCEPT !.soil = NoCaller]
    /\ xpc' = [xpc EXCEPT ![p] = IF exc THEN "soil_rolled_back" ELSE "soil_committed"]
    /\ UNCHANGED <<baseVars, today, system_relation, user_relation, context_frame, frames,
                   result, suspended, callers>>

\* __exit__, second half: the Core connection commits or rolls back.
x_end_core(p) ==
    /\ xpc[p] \in {"soil_committed", "soil_rolled_back"}
    /\ xlock' = [xlock EXCEPT !.core = NoCaller]
    /\ xpc' = [xpc EXCEPT ![p] = "idle"]
    /\ UNCHANGED <<baseVars, today, system_relation, user_relation, context_frame, frames,
                   result, suspended, callers>>

\* ----------------- commit_delta in a Core scope next to coordinated callers
\* The caller is inside `with get_core() as core:` and has made a write that
\* is not committed yet (entity.create, say): its connection holds the write
\* lock of core.db.
cd_core_write(p) ==
    /\ xpc[p] = "idle"
    /\ xlock.core = NoCaller
    /\ xlock' = [xlock EXCEPT !.core = p]
    /\ xpc' = [xpc EXCEPT ![p] = "cd_pending"]
    /\ UNCHANGED <<baseVars, today, system_relation, user_relation, context_frame, frames,
                   result, suspended, callers>>

\* commit_delta, `with get_soil() as soil: soil.create_fact(...)`: the INSERT
\* needs the write lock of soil.db, which the Soil scope gives back when it
\* commits on leaving.
cd_soil_write(p) ==
    /\ xpc[p] = "cd_pending"
    /\ xlock.soil = NoCaller
    /\ xpc' = [xpc EXCEPT ![p] = "cd_stored"]
    /\ UNCHANGED <<baseVars, today, system_relation, user_relation, context_frame, frames,
                   result, suspended, callers, xlock>>

\* The INSERT finds soil.db locked and raises OperationalError after the busy
\* timeout; the exception leaves the Core scope, whose __exit__ rolls back.
cd_soil_busy(p) ==
    /\ xpc[p] = "cd_pending"
    /\ xlock.soil \notin {NoCaller, p}
    /\ xlock' = [xlock EXCEPT !.core = NoCaller]
    /\ xpc' = [xpc EXCEPT ![p] = "idle"]
    /\ UNCHANGED <<baseVars, today, system_relation, user_relation, context_frame, frames,
                   result, suspended, callers>>

\* commit_delta, UPDATE entity and self._conn.commit(): the Core lock is given
\* back.
cd_core_commit(p) ==
    /\ xpc[p] = "cd_stored"
    /\ xlock' = [xlock EXCEPT !.core = NoCaller]
    /\ xpc' = [xpc EXCEPT ![p] = "idle"]
    /\ UNCHANGED <<baseVars, today, system_relation, user_relation, context_frame, frames,
                   result, suspended, callers>>

\* ------------------------------------------------------------------ Next
\* The payloads update_data is called with.
Payloads == {1}

\* The summaries fold is called with: 0 is the empty string, which it rejects.
Summaries == 0..1

\* A caller working on the entity registry inside Core scopes.
Next ==
    \/ Tick
    \/ CoreEnter
    \/ \E exc \in BOOLEAN : CoreExit(exc)
    \/ create("ConversationLog", EmptyData)
    \/ \E e \in Uuids : update_hash(e)
    \/ \E e \in Uuids : \E p \in Payloads :
          e \in DOMAIN coreW /\ update_data(e, [coreW[e].data EXCEPT !.payload = p])
    \/ \E o \in Uuids, n \in Uuids : supersede(o, n)
    \/ \E e \in Uuids : \E s \in Summaries : fold(e, s)

Spec == Init /\ [][Next]_vars

\* A caller editing artifacts inside Core scopes.
NextArtifact ==
    \/ Tick
    \/ CoreEnter
    \/ \E exc \in BOOLEAN : CoreExit(exc)
    \/ \E t \in {"Artifact", "ConversationLog"} : \E d \in InitData(t) :
          Cardinality(DOMAIN coreW) < MaxArtifacts /\ create(t, d)
    \/ \E e \in Uuids : \E s \in Summaries : fold(e, s)
    \/ \E a \in Uuids : \E ops \in OpsInputs : \E h \in BasedOn(a) : \E fault \in BOOLEAN :
          commit_delta(a, ops, h, fault)

SpecArtifact == Init /\ [][NextArtifact]_vars

\* A caller using coordinated transactions, next to plain Core and Soil scopes.
NextXdb ==
    \/ Tick
    \/ CoreEnter
    \/ \E exc \in BOOLEAN : CoreExit(exc)
    \/ SoilEnter
    \/ \E exc \in BOOLEAN : SoilExit(exc)
    \/ \E t \in FactTypes : \E e \in Uuids :
          create_item(t, IF t = "EntityDelta" THEN e ELSE NoUuid)
    \/ create("Transaction", EmptyData)
    \/ \E e \in Uuids : \E p \in Payloads :
          e \in DOMAIN coreW /\ update_data(e, [coreW[e].data EXCEPT !.payload = p])
    \/ XEnter
    \/ XBodyRaise
    \/ \E ok \in BOOLEAN : XCommitSoil(ok)
    \/ \E ok \in BOOLEAN : XCommitCore(ok)
    \/ XKilled

SpecXdb == Init /\ [][NextXdb]_vars

\* The relations create_relation is called with: a newly generated UUID and
\* any kind and endpoints.
RelationInputs ==
    IF FreshRelationUuids = {} THEN {}
    ELSE {SystemRelation(FreshRelationUuid, k, src, tgt) :
             k \in RelationKinds, src \in FactIds, tgt \in FactIds}

\* A caller recording system relations inside Soil scopes.
NextSysRel ==
    \/ SoilEnter
    \/ \E exc \in {FALSE} : SoilExit(exc)
    \/ \E relation \in RelationInputs : create_relation(relation)

SpecSysRel == Init /\ [][NextSysRel]_vars

\* The initial_horizon_days create is called with.
InitialHorizons == {0, 2}

\* A caller keeping user relations inside a Core scope, over several days.
NextUserRel ==
    \/ CoreEnter
    \/ \E exc \in BOOLEAN : CoreExit(exc)
    \/ NextDay
    \/ \E k \in USER_RELATION_KINDS \cup {"cites"} : \E t \in Uuids : \E d \in InitialHorizons :
          relation_create(k, t, d)
    \/ \E r \in UserRelationUuids : update_time_horizon(r)
    \/ \E r \in UserRelationUuids : expire(r)
    \/ \E t \in Uuids : fact_time_horizon(t)

SpecUserRel == Init /\ [][NextUserRel]_vars

\* The UUIDs visited: those of entities and those of items (no entity row).
Visited == 1..MaxVisited

\* The context_size values passed: the smallest and the largest allowed, and
\* one beyond each end.
ContextSizes == {CONTEXT_SIZE_MIN - 1, CONTEXT_SIZE_MIN, CONTEXT_SIZE_MAX,
                 CONTEXT_SIZE_MAX + 1}

\* A caller visiting entities and items in one context frame, inside Core
\* scopes that commit.
NextContainers ==
    \/ CoreEnter
    \/ \E exc \in {FALSE} : CoreExit(exc)
    \/ \E t \in {"Schema", "Note"} : DOMAIN coreW = {} /\ create(t, EmptyData)
    \/ DOMAIN context_frame = {} /\ create_context_frame(1, "agent", NoUuid)
    \/ \E f \in FrameUuids : \E v \in Visited : \E n \in ContextSizes :
          update_containers(f, v, n)

SpecContainers == Init /\ [][NextContainers]_vars

\* The visits made in parent and subordinate frames.
ForkVisited == 1..(MaxVisited - 1)

\* A caller forking subordinate frames and visiting items in parent and child,
\* inside one Core scope.
NextFork ==
    \/ CoreEnter
    \/ \E parent \in FrameUuids \cup {NoUuid} : create_context_frame(1, "agent", parent)
    \/ \E f \in FrameUuids : \E v \in ForkVisited :
          \E n \in {CONTEXT_SIZE_MIN, CONTEXT_SIZE_MAX} : update_containers(f, v, n)

SpecFork == Init /\ [][NextFork]_vars

\* An operator and an agent working with scopes, each on its one frame (the
\* object its last call returned), inside Core scopes that commit.
NextScopes ==
    \/ CoreEnter
    \/ \E exc \in {FALSE} : CoreExit(exc)
    \/ \E t \in {"operator", "agent"} :
          /\ \A g \in DOMAIN frames : frames[g].owner_type # t
          /\ create_context_frame(1, t, NoUuid)
    \/ \E f \in FrameUuids : update_containers(f, 1, CONTEXT_SIZE_MIN)
    \/ \E f \in FrameUuids : \E s \in ScopeUuids : enter_scope(f, s)
    \/ \E f \in FrameUuids : \E s \in ScopeUuids : leave_scope(f, s)
    \/ \E f \in FrameUuids : \E s \in ScopeUuids : focus_scope(f, s)

SpecScopes == Init /\ [][NextScopes]_vars

\* The scope whose frame receives Views, and the lists of frames a View is
\* appended to (NoUuid stands for an element that is no frame object).
ViewScopes == {1}
ContextLists ==
    {<<f>> : f \in FrameUuids} \cup
    {<<f, g>> : f \in FrameUuids, g \in FrameUuids \cup {NoUuid}}

\* An operator recording Views in its own frame and in the frame of a scope
\* it enters and leaves.
NextViews ==
    \/ CoreEnter
    \/ \E exc \in {FALSE} : CoreExit(exc)
    \/ get_context_frame(1, "operator")
    \/ \E s \in ViewScopes : DOMAIN frames # {} /\ get_context_frame(s, "scope")
    \/ \E f \in FrameUuids : \E s \in ViewScopes : enter_scope(f, s)
    \/ \E f \in FrameUuids : \E s \in ViewScopes : leave_scope(f, s)
    \/ \E f \in FrameUuids : \E a \in 0..1 : \E prev \in Uuids \cup {NoUuid} :
          create_view(f, a, prev)
    \/ \E f \in FrameUuids : \E v \in ViewsOf(coreW, f) : append_view(f, v)
    \/ \E v \in Uuids : \E ctxs \in ContextLists :
          /\ v \in DOMAIN coreW
          /\ append_view_to_contexts(v, ctxs)

SpecViews == Init /\ [][NextViews]_vars

\* Several callers asking for the frames of one operator and one agent.
NextFrames ==
    \/ \E p \in Callers : \E t \in {"operator", "agent"} : call_select(p, 1, t)
    \/ \E p \in Callers : call_insert(p)
    \/ \E p \in Callers : call_exit(p)
    \/ \E p \in Callers : call_done(p)

SpecFrames == Init /\ [][NextFrames]_vars

\* A caller using a Core and a Soil handle inside and outside their scopes.
NextHandles ==
    \/ CoreEnter
    \/ \E exc \in {FALSE} : CoreExit(exc)
    \/ SoilEnter
    \/ \E exc \in {FALSE} : SoilExit(exc)
    \/ get_context_frame(1, "operator")
    \/ \E f \in FrameUuids : create_view(f, 1, NoUuid)
    \/ \E f \in FrameUuids : \E v \in ViewsOf(coreW, f) : append_view(f, v)
    \/ create_item("Note", NoUuid)
    \/ core_call_outside
    \/ soil_call_outside

SpecHandles == Init /\ [][NextHandles]_vars

\* Several callers running coordinated transactions at the same time.
NextLocks ==
    \/ \E p \in Callers : x_begin(p)
    \/ \E p \in Callers : x_lock_first(p)
    \/ \E p \in Callers : x_lock_second(p)
    \/ \E p \in Callers : x_busy(p)
    \/ \E p \in Callers : x_collect(p)
    \/ \E p \in Callers, exc \in BOOLEAN : x_end_soil(p, exc)
    \/ \E p \in Callers : x_end_core(p)

SpecLocks == Init /\ [][NextLocks]_vars

\* Core and Soil scopes whose writes the startup check later audits.
NextAudit ==
    \/ Tick
    \/ CoreEnter
    \/ \E exc \in BOOLEAN : CoreExit(exc)
    \/ SoilEnter
    \/ \E exc \in BOOLEAN : SoilExit(exc)
    \/ \E e \in Uuids : create_item("EntityDelta", e)
    \/ create("Transaction", EmptyData)
    \/ \E e \in Uuids : \E p \in Payloads :
          e \in DOMAIN coreW /\ update_data(e, [coreW[e].data EXCEPT !.payload = p])
    \/ startup_check

SpecAudit == Init /\ [][NextAudit]_vars

\* Soil scopes that create facts and mark them superseded.
NextFacts ==
    \/ Tick
    \/ SoilEnter
    \/ \E exc \in BOOLEAN : SoilExit(exc)
    \/ \E t \in FactTypes : \E e \in Uuids :
          create_item(t, IF t = "EntityDelta" THEN e ELSE NoUuid)
    \/ \E o \in FactIds, n \in FactIds, at \in 0..MaxTime : mark_superseded(o, n, at)

SpecFacts == Init /\ [][NextFacts]_vars

\* Conversation logs that are folded and appended to.
NextFold ==
    \/ Tick
    \/ CoreEnter
    \/ \E exc \in BOOLEAN : CoreExit(exc)
    \/ create("ConversationLog", EmptyData)
    \/ \E e \in Uuids : \E s \in Summaries : fold(e, s)
    \/ \E e \in Uuids : append_item(e, 1)

SpecFold == Init /\ [][NextFold]_vars

\* Artifacts that are committed to and read back at a commit.
NextHistory ==
    \/ Tick
    \/ CoreEnter
    \/ \E exc \in BOOLEAN : CoreExit(exc)
    \/ \E t \in {"Artifact", "ConversationLog"} : \E d \in InitData(t) :
          Cardinality(DOMAIN coreW) < MaxArtifacts /\ create(t, d)
    \/ \E a \in Uuids : \E ops \in OpsInputs : \E h \in BasedOn(a) :
          commit_delta(a, ops, h, FALSE)
    \/ \E a \in Uuids : \E h \in CommitHashes(a) : get_at_commit(a, h)

SpecHistory == Init /\ [][NextHistory]_vars

\* Commits that name the message that caused them.
NextTriggers ==
    \/ Tick
    \/ NextDay
    \/ CoreEnter
    \/ \E exc \in BOOLEAN : CoreExit(exc)
    \/ \E d \in InitData("Artifact") :
          Cardinality(DOMAIN coreW) < MaxArtifacts /\ create("Artifact", d)
    \/ \E a \in Uuids : \E ops \in OpsInputs : \E h \in BasedOn(a) : \E m \in FactIds :
          commit_delta_from(a, ops, h, m)

SpecTriggers == Init /\ [][NextTriggers]_vars

\* apply_delta_ops called on any content with any list of ops.
NextDelta ==
    \E content \in Contents : \E ops \in OpsLists : call_apply_delta_ops(content, ops)

SpecDelta == Init /\ [][NextDelta]_vars

\* Callers with Core handles of their own committing to the artifact that a
\* first scope created.
NextRace ==
    \/ CoreEnter
    \/ \E exc \in {FALSE} : CoreExit(exc)
    \/ \E d \in InitData("Artifact") :
          Cardinality(DOMAIN coreW) < MaxArtifacts /\ create("Artifact", d)
    \/ \E p \in Callers : \E a \in Uuids : \E ops \in OpsInputs : \E h \in BasedOn(a) :
          cd_read(p, a, ops, h)
    \/ \E p \in Callers : cd_store(p)
    \/ \E p \in Callers : cd_update(p)

SpecRace == Init /\ [][NextRace]_vars

\* Coordinated transactions whose exit path meets failing rollbacks.
NextXFail ==
    \/ Tick
    \/ XEnter
    \/ \E t \in FactTypes : \E e \in Uuids :
          create_item(t, IF t = "EntityDelta" THEN e ELSE NoUuid)
    \/ create("Transaction", EmptyData)
    \/ \E e \in Uuids : \E p \in Payloads :
          e \in DOMAIN coreW /\ update_data(e, [coreW[e].data EXCEPT !.payload = p])
    \/ \E soil_ok \in BOOLEAN, core_ok \in BOOLEAN : XBodyRaiseBestEffort(soil_ok, core_ok)
    \/ \E soil_ok \in BOOLEAN, core_ok \in BOOLEAN : XCommitSoilFails(soil_ok, core_ok)
    \/ XCommitSoil(TRUE)
    \/ XCommitCore(TRUE)

SpecXFail == Init /\ [][NextXFail]_vars

\* Coordinated transactions next to Core scopes that call commit_delta.
NextMixed ==
    \/ NextLocks
    \/ \E p \in Callers : cd_core_write(p)
    \/ \E p \in Callers : cd_soil_write(p)
    \/ \E p \in Callers : cd_soil_busy(p)
    \/ \E p \in Callers : cd_core_commit(p)

SpecMixed == Init /\ [][NextMixed]_vars

\* Scope verbs applied through two objects of one operator frame.
NextStale ==
    \/ CoreEnter
    \/ \E exc \in {FALSE} : CoreExit(exc)
    \/ DOMAIN frames = {} /\ create_context_frame(1, "operator", NoUuid)
    \/ \E f \in FrameUuids : get_context_frame_by_uuid(1, f)
    \/ use_other_object(1)
    \/ \E f \in FrameUuids : \E s \in ScopeUuids : enter_scope(f, s)
    \/ \E f \in FrameUuids : \E s \in ScopeUuids : leave_scope(f, s)
    \/ \E f \in FrameUuids : \E s \in ScopeUuids : focus_scope(f, s)

SpecStale == Init /\ [][NextStale]_vars

\* ================================================================ claims

\* The facts the coordinated block inserted, and the entity rows it inserted
\* or changed, as its body left them.
BlockFacts == soilX \ soil0
BlockRows == {e \in DOMAIN coreX : e \notin DOMAIN core0 \/ coreX[e] # core0[e]}

\* The coordinated block has been cut between its two commits.
CutBetweenCommits == lastExit \in {"core_commit_failed", "killed"}

C2_AnomalyDetected ==
    (/\ pc = "idle"
     /\ CutBetweenCommits
     /\ BlockRows # {}
     /\ find_broken_hash_chains = {}
     /\ \E f \in BlockFacts : f.type = "EntityDelta")
    => /\ check_consistency = "INCONSISTENT"
       /\ \A f \in BlockFacts : f.type = "EntityDelta" => f \in find_orphaned_deltas

C4_ChainWellFormed ==
    \A u \in DOMAIN coreW :
        coreW[u].previous_hash # NoHash =>
            LET prior == {v \in DOMAIN coreW : coreW[v].hash = coreW[u].previous_hash}
            IN /\ Cardinality(prior) = 1
               /\ \A v \in prior : coreW[u].version > coreW[v].version

\* A call of commit_delta on an existing artifact with a based_on_hash that is
\* not the artifact's current hash.
StaleCommit ==
    \E a \in Uuids, ops \in OpsInputs, fault \in BOOLEAN :
        \E h \in BasedOn(a) :
            /\ a \in DOMAIN coreW
            /\ coreW[a].type = "Artifact"
            /\ h # coreW[a].hash
            /\ commit_delta(a, ops, h, fault)

\* C5: commit_delta called with a based_on_hash other than the artifact's
\* current hash raises ConflictError and writes nothing: the entity row and
\* the Soil facts are as before.
C5_StaleRefused ==
    [][StaleCommit => /\ ret' = "ConflictError"
                      /\ UNCHANGED <<core, coreW, soil, soilW>>]_vars

\* C5 witness: an artifact that has a committed delta has refused a stale call.
C5_Witness ==
    /\ ret = "ConflictError"
    /\ \E a \in DOMAIN coreW : Accepted(a) # {}

\* C6 (as stated): once a commit based on a hash has succeeded, every later
\* commit based on that hash raises ConflictError, whatever its ops.
C6_StrictLock ==
    \A a \in DOMAIN coreW : \A h \in Accepted(a) : \A ops \in OpsInputs :
        CommitDeltaCheck(a, ops, h) = "ConflictError"

\* C7 (as stated): the ArtifactDelta fact and the artifact's updated row are
\* durable together or not at all, also when the call is cut between the two
\* writes.
C7_DeltaAtomic ==
    \A f \in soil :
        f.type = "ArtifactDelta" =>
            /\ f.entity_id \in DOMAIN core
            /\ \E i \in 1..Len(core[f.entity_id].data.deltas) :
                  core[f.entity_id].data.deltas[i] = f.uuid

\* A call of update_hash or update_data on entity e.
HashStep(e) ==
    \/ update_hash(e)
    \/ \E p \in Payloads :
          e \in DOMAIN coreW /\ update_data(e, [coreW[e].data EXCEPT !.payload = p])

\* C8: update_data and update_hash each raise version by exactly 1 and set
\* previous_hash to the hash before the call; create yields version 1 with no
\* previous_hash, so k such calls after create yield version 1 + k.
C8_VersionStep ==
    [][/\ \A e \in Uuids :
              HashStep(e) => /\ coreW'[e].version = coreW[e].version + 1
                             /\ coreW'[e].previous_hash = coreW[e].hash
       /\ create("ConversationLog", EmptyData) =>
              /\ coreW'[FreshUuid].version = 1
              /\ coreW'[FreshUuid].previous_hash = NoHash]_vars

\* C8 witness: an entity after create and two update calls, the second made
\* on the hash the first one left.
C8_Witness ==
    \E e \in DOMAIN coreW :
        /\ coreW[e].superseded_by = NoUuid
        /\ coreW[e].version = 3
        /\ coreW[e].previous_hash # NoHash
        /\ coreW[e].previous_hash # coreW[e].hash

\* C9 (as stated): supersede(old, new) sets superseded_by to new and
\* superseded_at, raises version by 1, changes the hash and sets previous_hash
\* to the hash before the call.
C9_SupersedeStep ==
    [][\A o \in Uuids, n \in Uuids :
          supersede(o, n) => /\ coreW'[o].superseded_by = n
                             /\ coreW'[o].superseded_at # NoTime
                             /\ coreW'[o].version = coreW[o].version + 1
                             /\ coreW'[o].hash # coreW[o].hash
                             /\ coreW'[o].previous_hash = coreW[o].hash]_vars

\* C10 (as stated): every operation that changes an entity row, fold and
\* commit_delta included, strictly increases the row's version.
C10_VersionGrows ==
    [][(pc = "core" /\ pc' = "core") =>
          \A e \in DOMAIN coreW :
              coreW'[e] # coreW[e] => coreW'[e].version > coreW[e].version]_vars

\* The entity reached from e by following superseded_by links n times
\* (NoUuid once a link is unset or leads to no stored entity).
RECURSIVE FollowSuperseded(_, _)
FollowSuperseded(e, n) ==
    IF e \notin DOMAIN coreW THEN NoUuid
    ELSE IF n = 0 THEN e
    ELSE FollowSuperseded(coreW[e].superseded_by, n - 1)

\* C11 (as stated): the superseded_by links among entities contain no cycle
\* (no entity supersedes itself), and a superseded_by that is set changes
\* only by a later supersede on that same entity.
C11_SupersessionAcyclic ==
    /\ [](\A e \in DOMAIN coreW : \A n \in 1..MaxEntities : FollowSuperseded(e, n) # e)
    /\ [][\A e \in DOMAIN coreW :
             (/\ pc' = pc
              /\ coreW[e].superseded_by # NoUuid
              /\ coreW'[e].superseded_by # coreW[e].superseded_by)
             => \E n \in Uuids : supersede(e, n)]_vars

\* C12: create_relation with a (kind, source, target) returns the UUID of the
\* one row stored under that key, the first time (the row it inserts) and
\* every later time (the row found), and exactly one row is stored under the
\* key after the call.
C12_RelationIdempotent ==
    [][\A relation \in RelationInputs :
          create_relation(relation) =>
              /\ Cardinality(SameKey(system_relation', relation)) = 1
              /\ \A r \in SameKey(system_relation', relation) : result'.value = r.uuid
              /\ \A r \in SameKey(system_relation, relation) : result'.value = r.uuid
              /\ SameKey(system_relation, relation) # {} => UNCHANGED system_relation]_vars

\* C12 witness: with two relations stored, a call repeating the key of the
\* first one has returned the first one's UUID.
C12_Witness ==
    /\ Cardinality(system_relation) = 2
    /\ result = Result("ok", 1)

\* C13: every update_time_horizon call on a relation leaves its time_horizon
\* and its last_access_at at least as large as they were before the call.
C13_HorizonMonotone ==
    [][\A r \in DOMAIN user_relation :
          update_time_horizon(r) =>
              /\ user_relation'[r].time_horizon >= user_relation[r].time_horizon
              /\ user_relation'[r].last_access_at >= user_relation[r].last_access_at]_vars

\* C13 witness: a relation accessed on a later day than it was created, its
\* horizon extended by the access.
C13_Witness ==
    \E r \in DOMAIN user_relation :
        /\ user_relation[r].last_access_at > user_relation[r].created_at
        /\ user_relation[r].time_horizon > user_relation[r].created_at + 2

\* The inbound relations of target that are alive: time_horizon >= current_day().
AliveInbound(target) == {r \in Inbound(target) : user_relation[r].time_horizon >= today}

\* C14 (as stated): fact_time_horizon(target) returns the maximum time_horizon
\* over the alive inbound relations of target, and None when target has no
\* alive inbound relation, also when all its inbound relations are expired.
C14_MaxOverAlive ==
    [][\A t \in Uuids :
          fact_time_horizon(t) =>
              result' = IF AliveInbound(t) # {}
                        THEN Result("ok", MaxHorizon(AliveInbound(t)))
                        ELSE Result("None", 0)]_vars

\* An update_containers call that admits the visit: the size is in range and
\* the visited UUID is not that of a primitive entity.
Admitted(v, n) ==
    /\ CONTEXT_SIZE_MIN <= n
    /\ n <= CONTEXT_SIZE_MAX
    /\ ~PrimitiveVisit(v)

\* C15: after an update_containers(frame, visited_uuid, N) that admits the
\* visit, the frame holds at most N containers and visited_uuid is the first
\* of them, in the object returned and in the stored row.
C15_LruBound ==
    [][\A f \in FrameUuids, v \in Visited, n \in ContextSizes :
          (update_containers(f, v, n) /\ Admitted(v, n)) =>
              /\ Len(frames'[f].containers) <= n
              /\ frames'[f].containers[1] = v
              /\ \A i \in 2..Len(frames'[f].containers) : frames'[f].containers[i] # v
              /\ context_frame'[f].containers = frames'[f].containers]_vars

\* C15 witness: a frame filled to the smallest capacity has admitted a visit
\* of a UUID other than the first one visited.
C15_Witness ==
    \E f \in DOMAIN frames :
        /\ result = Result("ok", f)
        /\ Len(frames[f].containers) = CONTEXT_SIZE_MIN
        /\ frames[f].containers[1] = MaxVisited
        /\ context_frame[f].parent_frame_uuid = NoUuid

\* C16: update_containers visiting an entity whose type is primitive returns
\* the frame with its containers as they were and writes nothing.
C16_PrimitiveIgnored ==
    [][\A f \in FrameUuids, v \in Visited, n \in ContextSizes :
          (/\ update_containers(f, v, n)
           /\ v \in DOMAIN coreW
           /\ coreW[v].type \in {"Schema", "SystemConfig", "ContextFrame"})
          => UNCHANGED <<frames, context_frame, coreVars>>]_vars

\* C16 witness: with a Schema entity stored, a call in a scope that has
\* written nothing has returned a frame that holds containers, the entity not
\* among them.
C16_Witness ==
    \E f \in DOMAIN frames : \E e \in DOMAIN coreW :
        /\ coreW[e].type = "Schema"
        /\ pc = "core"
        /\ coreTxn = "none"
        /\ result = Result("ok", f)
        /\ frames[f].containers # <<>>
        /\ ~InList(frames[f].containers, e)

\* C17: a subordinate frame starts with its parent's containers as they are
\* stored when it is created; afterwards update_containers on one frame
\* changes no other frame, neither its object nor its row.
C17_ForkSnapshot ==
    [][/\ \A parent \in DOMAIN context_frame :
              create_context_frame(1, "agent", parent) =>
                  /\ context_frame'[FreshFrameUuid].containers = context_frame[parent].containers
                  /\ frames'[FreshFrameUuid].containers = frames[parent].containers
                  /\ context_frame'[parent] = context_frame[parent]
       /\ \A f \in FrameUuids, v \in Visited, n \in ContextSizes :
              update_containers(f, v, n) =>
                  \A g \in DOMAIN context_frame \ {f} :
                      /\ context_frame'[g] = context_frame[g]
                      /\ frames'[g] = frames[g]]_vars

\* C17 witness: a subordinate frame created from a parent with containers,
\* after which parent and child were each visited differently.
C17_Witness ==
    \E c \in DOMAIN context_frame :
        LET p == context_frame[c].parent_frame_uuid
        IN /\ p # NoUuid
           /\ Len(context_frame[c].containers) >= 2
           /\ Len(context_frame[p].containers) >= 2
           /\ context_frame[c].containers[1] # context_frame[p].containers[1]
           /\ context_frame[c].containers[2] = context_frame[p].containers[2]

\* The frame holds no primary scope, or one of its active scopes.
PrimaryIsActive(frame) ==
    frame.primary_scope = NoUuid \/ InList(frame.active_scopes, frame.primary_scope)

OtherPrimariesKept(f) ==
    \A g \in DOMAIN frames \ {f} :
        /\ frames'[g].primary_scope = frames[g].primary_scope
        /\ context_frame'[g].primary_scope = context_frame[g].primary_scope

\* The primary scope of frame f after the step is p, in object and row.
PrimaryBecomes(f, p) ==
    /\ frames'[f].primary_scope = p
    /\ context_frame'[f].primary_scope = p

RejectedUnchanged ==
    /\ result' = Result("ValidationError", 0)
    /\ UNCHANGED <<frames, context_frame>>

\* C20: every rejected scope verb raises ValidationError and leaves the frame
\* object and the stored row unchanged: any verb on a frame that is not an
\* operator's, and focus_scope of a scope that is not in active_scopes.
C20_RejectionsInert ==
    [][\A f \in DOMAIN frames, s \in ScopeUuids :
          /\ (/\ frames[f].owner_type # "operator"
              /\ enter_scope(f, s) \/ leave_scope(f, s) \/ focus_scope(f, s))
             => RejectedUnchanged
          /\ (focus_scope(f, s) /\ ~InList(frames[f].active_scopes, s))
             => RejectedUnchanged]_vars

\* C20 witness: a scope verb has been refused while an agent frame exists and
\* an operator frame holds an active scope with another one inactive.
C20_Witness ==
    /\ result = Result("ValidationError", 0)
    /\ \E f \in DOMAIN frames : frames[f].owner_type = "agent"
    /\ \E f \in DOMAIN frames :
          /\ frames[f].owner_type = "operator"
          /\ Len(frames[f].active_scopes) = 1

\* The frame object of scope s, if the caller holds one.
ScopeFrames(s) ==
    {f \in DOMAIN frames : frames[f].owner_type = "scope" /\ frames[f].owner = s}

\* C21: after leave_scope(S) the view-stream of S is suspended: until S is
\* entered again, no append_view and no append_view_to_contexts adds a View
\* to the frame of S.
C21_SuspendedOnLeave ==
    [][\A s \in suspended : \A f \in ScopeFrames(s) :
          ((\E v \in Uuids : append_view(f, v))
             \/ (\E v \in Uuids : \E ctxs \in ContextLists : append_view_to_contexts(v, ctxs)))
          => frames'[f].view_timeline = frames[f].view_timeline]_vars

\* The last element of a timeline, NoUuid if it is empty.
LastView(timeline) == IF timeline = <<>> THEN NoUuid ELSE timeline[Len(timeline)]

\* C22: after append_view(frame, view), view.uuid is the last element of the
\* frame's view_timeline and the View's prev is the UUID that was last before
\* the call (none if the timeline was empty).
C22_LinkedTimeline ==
    [][\A f \in DOMAIN frames : \A v \in ViewsOf(coreW, f) :
          append_view(f, v) =>
              /\ LastView(frames'[f].view_timeline) = v
              /\ coreW'[v].data.prev = LastView(frames[f].view_timeline)]_vars

\* C23: append_view_to_contexts(view, frames) is all-or-nothing: afterwards
\* the View UUID is the tail of the view_timeline of every frame in the list,
\* or, if a frame update failed, no frame's view_timeline has changed.
C23_SynchronisedAppend ==
    [][\A v \in DOMAIN coreW : \A ctxs \in ContextLists :
          append_view_to_contexts(v, ctxs) =>
              \/ \A i \in 1..Len(ctxs) :
                    /\ ctxs[i] \in DOMAIN frames'
                    /\ LastView(frames'[ctxs[i]].view_timeline) = v
              \/ \A f \in DOMAIN frames :
                    frames'[f].view_timeline = frames[f].view_timeline]_vars

\* C24: no frame ever has two Views with the same prev.
C24_UniquePrev ==
    \A f \in DOMAIN context_frame : \A v, w \in ViewsOf(coreW, f) :
        v # w => coreW[v].data.prev # coreW[w].data.prev

\* C25: after any sequence or interleaving of get_context_frame(owner,
\* owner_type) calls there is one frame per (owner, owner_type): no second
\* row is created, and the calls for one pair return the same frame UUID.
C25_OneFramePerOwner ==
    /\ \A u, w \in DOMAIN context_frame :
          (/\ context_frame[u].owner = context_frame[w].owner
           /\ context_frame[u].owner_type = context_frame[w].owner_type) => u = w
    /\ \A p, q \in Callers :
          (/\ callers[p].pc = "returned"
           /\ callers[q].pc = "returned"
           /\ callers[p].owner = callers[q].owner
           /\ callers[p].owner_type = callers[q].owner_type)
          => callers[p].uuid = callers[q].uuid

\* C26: a Core or Soil operation invoked while its handle is outside its
\* scope fails at once with an error and reads and writes nothing: every
\* step made while no scope is open raises and changes neither database, no
\* table and no object.
C26_FailFastOutsideScope ==
    [][(pc = "idle" /\ pc' = "idle") =>
          /\ result'.outcome = "RuntimeError"
          /\ UNCHANGED <<baseVars, today, system_relation, user_relation, context_frame,
                         frames>>]_vars

\* C27: a Core scope commits all its writes or rolls them all back: nothing
\* written inside the scope becomes durable before the scope exits, and an
\* exit with an exception leaves the committed tables as they were when the
\* scope was entered.
C27_ScopeAllOrNothing ==
    [][pc = "core" => (core' = core \/ CoreExit(FALSE))]_vars

\* Caller p waits for a lock that caller q holds.
WaitsFor(p, q) ==
    /\ q # p
    /\ \/ xpc[p] = "want_first" /\ xlock[LockOrder(p)[1]] = q
       \/ xpc[p] = "want_second" /\ xlock[LockOrder(p)[2]] = q

\* C28: coordinated transactions take the locks in the order Soil, then Core,
\* so no set of cross_database_transaction callers is ever such that each of
\* them waits for a lock another of them holds; whoever holds Soil and waits
\* for Core waits for a caller that waits for nothing.
C28_NoLockCycle ==
    /\ \A S \in SUBSET Callers :
          S # {} => \E p \in S : \A q \in S : ~WaitsFor(p, q)
    /\ \A p \in Callers :
          xpc[p] \in {"want_second", "body"} => xlock.soil = p
    /\ \A p \in Callers : xlock.core = p => xpc[p] \in {"body", "soil_committed", "soil_rolled_back"}

\* C28 witness: a caller holds the Soil lock and waits for the Core lock,
\* which another caller still holds after having released Soil.
C28_Witness ==
    \E p, q \in Callers :
        /\ WaitsFor(p, q)
        /\ xpc[p] = "want_second"
        /\ xlock.soil = p
        /\ xlock.core = q

\* The statuses check_consistency can return.
SystemStatus == {"NORMAL", "INCONSISTENT", "SAFE_MODE"}

\* C29: check_consistency returns SAFE_MODE if any hash chain is broken,
\* otherwise INCONSISTENT if any EntityDelta is orphaned, otherwise NORMAL;
\* it always returns one of these statuses.
C29_StatusPriority ==
    [][startup_check =>
          /\ result'.outcome \in SystemStatus
          /\ find_broken_hash_chains # {} => result'.outcome = "SAFE_MODE"
          /\ (find_broken_hash_chains = {} /\ find_orphaned_deltas # {})
                => result'.outcome = "INCONSISTENT"
          /\ (find_broken_hash_chains = {} /\ find_orphaned_deltas = {})
                => result'.outcome = "NORMAL"]_vars

\* C29 witness: the check has just run on databases holding both a broken
\* chain and an orphaned EntityDelta, and returned SAFE_MODE.
C29_Witness ==
    /\ result = Result("SAFE_MODE", 0)
    /\ find_broken_hash_chains # {}
    /\ find_orphaned_deltas # {}

\* A fact without its supersession link.
FactPayload(f) == [f EXCEPT !.superseded_by = NoUuid, !.superseded_at = NoTime]

\* Every fact of the table before that is still in the table after has the
\* same fields apart from its supersession link.
FactsKept(before, after) ==
    \A f \in before : \A g \in after : f.uuid = g.uuid => FactPayload(f) = FactPayload(g)

\* C30: no Soil operation changes a stored fact's _type, realized_at,
\* canonical_at, fidelity, integrity_hash, data or metadata; only
\* superseded_by and superseded_at may change.
C30_FactsImmutable ==
    [][FactsKept(soilW, soilW') /\ FactsKept(soil, soil')]_vars

\* C30 witness: a fact created at one time has been marked superseded by
\* another stored fact, and the change is committed.
C30_Witness ==
    \E f \in soil : \E g \in soil :
        /\ f.superseded_by = g.uuid
        /\ f.uuid # g.uuid
        /\ f.superseded_at > f.realized_at
        /\ result = Result("True", 0)

\* C31: fold sets data.collapsed and data.summary of the log and leaves
\* data.items and every other data field as they were; a collapsed log still
\* accepts an update that appends an item.
C31_FoldIsNoSeal ==
    /\ [][\A e \in Uuids : \A s \in Summaries :
             fold(e, s) =>
                 coreW'[e].data = [coreW[e].data EXCEPT !.collapsed = TRUE, !.summary = s]]_vars
    /\ [](\A e \in DOMAIN coreW :
             (/\ CoreInContext
              /\ coreW[e].data.collapsed
              /\ coreW[e].version < MaxVersion
              /\ Len(coreW[e].data.items) < MaxItems)
             => ENABLED append_item(e, 1))

\* C31 witness: inside a Core scope, a log that holds an item has been folded
\* and can take one more item.
C31_Witness ==
    /\ pc = "core"
    /\ \E e \in DOMAIN coreW :
          /\ coreW[e].data.collapsed
          /\ coreW[e].data.summary = 1
          /\ Len(coreW[e].data.items) = 1
          /\ coreW[e].version < MaxVersion

\* C32 (as stated): get_at_commit called with a hash that is not the
\* artifact's current content hash never answers with the current content:
\* what it returns is the content of the commit asked for.
C32_NoSilentCurrent ==
    [][\A a \in Uuids : \A h \in CommitHashes(a) :
          (get_at_commit(a, h) /\ result'.outcome = "ok")
          => compute_content_hash(result'.value.content) = h]_vars

\* C33 (as stated): commit_delta called with a source message and a matching
\* based_on_hash (and ops that apply) succeeds, and afterwards a triggers
\* relation from the source message to the new delta exists with
\* time_horizon = current_day + 7.
C33_TriggersRelationCreated ==
    [][\A a \in Uuids : \A ops \in OpsInputs : \A h \in BasedOn(a) : \A m \in FactIds :
          (commit_delta_from(a, ops, h, m) /\ CommitDeltaCheck(a, ops, h) = "ok")
          => /\ ret' = "ok"
             /\ \E r \in DOMAIN user_relation' :
                   /\ user_relation'[r].kind = "triggers"
                   /\ user_relation'[r].source = m
                   /\ user_relation'[r].time_horizon = today + 7]_vars

\* The orders in which the ops may be taken according to the rule "removes
\* and moves first, by descending line; then adds and replaces, by ascending
\* line": permutations of the positions of ops.
FirstPhase(op) == op.op_type \in {"remove", "move"}

PhasedOrders(ops) ==
    {o \in [1..Len(ops) -> 1..Len(ops)] :
        /\ \A i, j \in 1..Len(ops) : i # j => o[i] # o[j]
        /\ \A i, j \in 1..Len(ops) :
              i < j =>
                 \/ FirstPhase(ops[o[i]]) /\ ~FirstPhase(ops[o[j]])
                 \/ /\ FirstPhase(ops[o[i]]) /\ FirstPhase(ops[o[j]])
                    /\ ops[o[i]].line >= ops[o[j]].line
                 \/ /\ ~FirstPhase(ops[o[i]]) /\ ~FirstPhase(ops[o[j]])
                    /\ ops[o[i]].line <= ops[o[j]].line}

\* The ops taken one after the other in the order o, from position k on.
RECURSIVE ApplyInOrder(_, _, _, _)
ApplyInOrder(st, ops, o, k) ==
    IF k > Len(ops) THEN st
    ELSE ApplyInOrder(IF FirstPhase(ops[o[k]]) THEN ApplyRemove(st, ops[o[k]])
                                               ELSE ApplyAddReplace(st, ops[o[k]]),
                      ops, o, k + 1)

\* C34: whatever the order of the ops in the input, apply_delta_ops gives what
\* taking them one by one gives when all removes and moves come first by
\* descending line and all adds and replaces after by ascending line; when
\* one of them is then outside the line range the call fails and returns no
\* content.
C34_PhasedApplication ==
    result.outcome \in {"ok", "ValueError"} =>
        \E o \in PhasedOrders(result.value.ops) :
            LET st == ApplyInOrder([ok |-> TRUE, lines |-> result.value.content],
                                   result.value.ops, o, 1)
            IN IF st.ok
               THEN /\ result.outcome = "ok"
                    /\ result.value.new_content = JoinLines(st.lines)
               ELSE /\ result.outcome = "ValueError"
                    /\ result.value.new_content = <<>>

\* C34 witness: an add listed before two removes that are listed in ascending
\* line order has been applied after them, the removes from the bottom up.
C34_Witness ==
    /\ result.outcome = "ok"
    /\ result.value.content = <<"a", "a">>
    /\ result.value.ops = <<Add(1), Remove(1), Remove(2)>>
    /\ result.value.new_content = <<"[^x]">>

\* C35 (as stated): after any sequence of successful entity operations with
\* an empty Soil, check_consistency returns NORMAL.
C35_FaultFreeIsNormal ==
    soil = {} => check_consistency = "NORMAL"

\* C36 (as stated): of two callers that invoke commit_delta on the same
\* artifact with the same based_on_hash, each having read the artifact before
\* the other wrote it, at most one succeeds.
C36_OneWinner ==
    \A p \in Callers : \A q \in Callers \ {p} :
        ~ /\ callers[p].pc = "done" /\ callers[p].outcome = "ok"
          /\ callers[q].pc = "done" /\ callers[q].outcome = "ok"
          /\ callers[p].artifact_uuid = callers[q].artifact_uuid
          /\ callers[p].based_on_hash = callers[q].based_on_hash
          /\ callers[p].data.deltas = callers[q].data.deltas

\* C37 (as stated): when the body of a coordinated transaction raises, or the
\* Soil commit fails, nothing written inside the block is committed on either
\* database, even if a rollback call itself fails.
C37_ExitNeverCommits ==
    (pc = "idle" /\ lastExit \in {"body_raised", "soil_commit_failed"})
    => /\ soil = soil0
       /\ core = core0

\* C38 (as stated): a caller that is not inside a coordinated block holds no
\* database lock: not before it enters, not after the block has exited, and
\* not after its entry has failed and the error has reached it.
C38_NoLockOutsideBlock ==
    \A p \in Callers :
        xpc[p] \in {"idle", "abandoned"} => (xlock.soil # p /\ xlock.core # p)

\* Caller p holds the lock of database db.
HoldsLock(p, db) == xlock[db] = p

\* Caller p is waiting for the lock of database db.
WantsLock(p, db) ==
    \/ xpc[p] = "want_first" /\ LockOrder(p)[1] = db
    \/ xpc[p] = "want_second" /\ LockOrder(p)[2] = db
    \/ xpc[p] = "cd_pending" /\ db = "soil"

\* C39 (as stated): a commit_delta caller inside a Core scope with pending
\* writes and a concurrent coordinated transaction never each hold the lock
\* the other is waiting for.
C39_SoilBeforeCore ==
    \A p \in Callers : \A q \in Callers \ {p} :
        ~ /\ HoldsLock(p, "core") /\ WantsLock(p, "soil") /\ HoldsLock(q, "soil")
          /\ WantsLock(q, "core")

\* C40 (as stated): the stored context_frame row always has its primary_scope
\* in its active_scopes or has none, also when scope verbs are applied
\* through two objects loaded from the same row.
C40_StoredPrimaryIsActive ==
    \A u \in DOMAIN context_frame :
        \/ context_frame[u].primary_scope = NoUuid
        \/ InList(context_frame[u].active_scopes, context_frame[u].primary_scope)

====
